---- MODULE Spec2Model ----
(***************************************************************************)
(* Model of the per-connection list-projection engine of the sliding-sync  *)
(* server: ConnState (request handling, live loop, moveRoom), the request  *)
(* algebra (Request.ApplyDelta), the move geometry of a windowed list      *)
(* (RequestList.CalculateMoveIndexes) and the op-log replay list.          *)
(*                                                                         *)
(* Go indices are 0-based; sequences here are 1-based, so At(s, i) reads   *)
(* the Go element s[i].  A Go nil-able value is an option: Nil is <<>> and *)
(* Some(v) is <<v>>, which keeps a nil slice apart from an empty one.      *)
(***************************************************************************)
EXTENDS Integers, Sequences, FiniteSets, TLC

VARIABLES
    muxedReq,                    \* ConnState.muxedReq: Nil or Some(Request)
    sortedJoinedRooms,           \* ConnState.sortedJoinedRooms
    sortedJoinedRoomsPositions,  \* ConnState.sortedJoinedRoomsPositions
    roomSubscriptions,           \* ConnState.roomSubscriptions
    loadPosition,                \* ConnState.loadPosition
    updateEvents,                \* ConnState.updateEvents (the event inbox)
    pc,                          \* where the request goroutine is: "idle" or "live"
    response,                    \* the Response being built / last returned
    client,                      \* the client's local array, fed by the responses
    hist,                        \* what the last handler step did (history only)
    nRequests,                   \* how many client requests the connection has had
    nEvents,                     \* how many events the pollers have handed over
    mv,                          \* inputs and outputs of the pure-function specifications
    cacheSubscribed,                  \* the user cache holds the subscription userCacheID
    discarded,                   \* a send to the inbox has timed out (history only)
    selectTimer                  \* which iteration of the live loop armed the 10 s timer

vars == << muxedReq, sortedJoinedRooms, sortedJoinedRoomsPositions, roomSubscriptions,
           loadPosition, updateEvents, pc, response, client, hist, nRequests, nEvents, mv,
           cacheSubscribed, discarded, selectTimer >>

connVars == << muxedReq, sortedJoinedRooms, sortedJoinedRoomsPositions, roomSubscriptions,
               loadPosition, updateEvents, pc, response, client, hist >>

----------------------------------------------------------------------------
(* Bounds of the model *)

\* how many client requests a connection gets
MaxRequests == 3
\* how many events the pollers hand over
MaxEvents == 2
\* capacity of the event inbox (MaxPendingEventUpdates, scaled down)
InboxCap == 1
\* largest upstream position an event or a load can carry
MaxPos == 2
\* largest timestamp an event can carry
MaxTs == 3
\* largest list index used by the pure-function specifications
MaxIdx == 6
\* largest position of the client's local array
MaxWindow == 3
\* largest timeline limit a request carries
MaxLimit == 2
\* largest number of ranges of a list of the move geometry
MaxRanges == 3
\* largest number of lists of a request of the request algebra
MaxLists == 2

----------------------------------------------------------------------------
(* Options, sequences *)

Nil == << >>
Some(v) == << v >>
Val(o) == o[1]

At(s, i) == s[i + 1]

Min(a, b) == IF a < b THEN a ELSE b
Max(a, b) == IF a > b THEN a ELSE b

SetMax(S) == CHOOSE x \in S : \A y \in S : y <= x
SetMin(S) == CHOOSE x \in S : \A y \in S : x <= y

RangeOf(s) == { s[k] : k \in DOMAIN s }

SelectSeqIdx(s, Keep(_)) ==
    LET F[k \in 0..Len(s)] ==
            IF k = 0 THEN << >>
            ELSE IF Keep(k) THEN Append(F[k - 1], s[k]) ELSE F[k - 1]
    IN  F[Len(s)]

----------------------------------------------------------------------------
(* Rooms of the upstream (global cache) *)

RoomIDs == { "A", "B", "C" }

\* ascending order of room identifiers
IdRank(r) == CASE r = "A" -> 1 [] r = "B" -> 2 [] r = "C" -> 3

\* the canonicalised room name, as its rank in lexicographic order
CanonicalisedName(r) == CASE r = "A" -> 3 [] r = "B" -> 1 [] r = "C" -> 2

SortByName == "by_name"
SortByRecency == "by_recency"
SortByNotificationCount == "by_notification_count"
SortByHighlightCount == "by_highlight_count"

RoomConnMetadata(r, ts) ==
    [ RoomID |-> r, LastMessageTimestamp |-> ts,
      HighlightCount |-> 0, NotificationCount |-> 0 ]

----------------------------------------------------------------------------
(* SliceRanges: a sequence of inclusive << lo, hi >> pairs *)

Inside(ranges, i) == \E k \in DOMAIN ranges : ranges[k][1] <= i /\ i <= ranges[k][2]

\* the covering range (Nil when there is none)
InsideRange(ranges, i) ==
    IF Inside(ranges, i)
    THEN Some(ranges[SetMin({ k \in DOMAIN ranges : ranges[k][1] <= i /\ i <= ranges[k][2] })])
    ELSE Nil

\* the end-index of the nearest range below i, -1 when there is none
LowerClamp(ranges, i) ==
    LET below == { ranges[k][2] : k \in { j \in DOMAIN ranges : ranges[j][2] < i } }
    IN  IF below = {} THEN -1 ELSE SetMax(below)

\* the start-index of the nearest range above i, -1 when there is none
UpperClamp(ranges, i) ==
    LET above == { ranges[k][1] : k \in { j \in DOMAIN ranges : ranges[j][1] > i } }
    IN  IF above = {} THEN -1 ELSE SetMin(above)

Boundaries(ranges) == { ranges[k][1] : k \in DOMAIN ranges } \cup { ranges[k][2] : k \in DOMAIN ranges }

\* towards zero: the largest boundary <= i; otherwise the smallest boundary >= i
ClosestInDirection(ranges, i, towardsZero) ==
    LET cand == IF towardsZero THEN { b \in Boundaries(ranges) : b <= i }
                ELSE { b \in Boundaries(ranges) : b >= i }
    IN  IF cand = {} THEN -1
        ELSE IF towardsZero THEN SetMax(cand) ELSE SetMin(cand)

\* Delta: ranges are compared by (lo, hi) identity, each result in request order
Delta(prev, next) ==
    [ added   |-> SelectSeq(next, LAMBDA r : r \notin RangeOf(prev)),
      removed |-> SelectSeq(prev, LAMBDA r : r \notin RangeOf(next)),
      same    |-> SelectSeq(prev, LAMBDA r : r \in RangeOf(next)) ]

\* the part of seq whose absolute (0-based) positions fall inside r
SliceOne(r, seq) == SelectSeqIdx(seq, LAMBDA k : r[1] <= k - 1 /\ k - 1 <= r[2])

SliceInto(ranges, seq) == [ k \in DOMAIN ranges |-> SliceOne(ranges[k], seq) ]

----------------------------------------------------------------------------
(* SortableRooms *)

\* -1 when a sorts before b under this key, 1 when after, 0 on a tie
Compare(key, a, b) ==
    CASE key = SortByName ->
            IF CanonicalisedName(a.RoomID) < CanonicalisedName(b.RoomID) THEN -1
            ELSE IF CanonicalisedName(a.RoomID) > CanonicalisedName(b.RoomID) THEN 1 ELSE 0
      [] key = SortByRecency ->
            IF a.LastMessageTimestamp > b.LastMessageTimestamp THEN -1
            ELSE IF a.LastMessageTimestamp < b.LastMessageTimestamp THEN 1 ELSE 0
      [] key = SortByNotificationCount ->
            IF a.NotificationCount > b.NotificationCount THEN -1
            ELSE IF a.NotificationCount < b.NotificationCount THEN 1 ELSE 0
      [] key = SortByHighlightCount ->
            IF a.HighlightCount > b.HighlightCount THEN -1
            ELSE IF a.HighlightCount < b.HighlightCount THEN 1 ELSE 0
      [] OTHER -> 0

\* earlier keys dominate; ties after the whole key sequence go by room identifier
RECURSIVE Less(_, _, _)
Less(keys, a, b) ==
    IF keys = << >> THEN IdRank(a.RoomID) < IdRank(b.RoomID)
    ELSE LET c == Compare(Head(keys), a, b)
         IN  IF c # 0 THEN c = -1 ELSE Less(Tail(keys), a, b)

RECURSIVE InsertRoom(_, _, _)
InsertRoom(keys, sorted, x) ==
    IF sorted = << >> THEN << x >>
    ELSE IF Less(keys, x, Head(sorted)) THEN << x >> \o sorted
    ELSE << Head(sorted) >> \o InsertRoom(keys, Tail(sorted), x)

\* SortableRooms.Sort: a stable sort; sortBy is a nil-able key sequence
Sort(rooms, sortBy) ==
    LET keys == IF sortBy = Nil THEN << >> ELSE Val(sortBy)
        F[k \in 0..Len(rooms)] ==
            IF k = 0 THEN << >> ELSE InsertRoom(keys, F[k - 1], rooms[k])
    IN  F[Len(rooms)]

RoomIDsOf(rooms) == [ k \in DOMAIN rooms |-> rooms[k].RoomID ]

----------------------------------------------------------------------------
(* Request, RequestList, RoomSubscription *)

RoomSubscription(limit) == [ TimelineLimit |-> limit ]

RequestList(ranges, sort, limit) ==
    [ Ranges |-> ranges, Sort |-> sort, RequiredState |-> Nil, TimelineLimit |-> limit,
      Filters |-> Nil, SlowGetAllRooms |-> Nil ]

Request(lists, subs, unsubs) ==
    [ Lists |-> lists, RoomSubscriptions |-> subs, UnsubscribeRooms |-> unsubs ]

EmptySubs == [ r \in {} |-> RoomSubscription(0) ]

EmptyRequest == Request(<< >>, EmptySubs, {})

\* len() of a nil-able slice
OptLen(o) == IF o = Nil THEN 0 ELSE Len(Val(o))

\* the fields of a list present in both requests
MergeList(existingList, nextList) ==
    [ Ranges |-> IF nextList.Ranges = Nil THEN existingList.Ranges ELSE nextList.Ranges,
      Sort |-> IF nextList.Sort = Nil THEN existingList.Sort ELSE nextList.Sort,
      RequiredState |-> IF nextList.RequiredState = Nil THEN existingList.RequiredState
                        ELSE nextList.RequiredState,
      TimelineLimit |-> IF nextList.TimelineLimit = 0 THEN existingList.TimelineLimit
                        ELSE nextList.TimelineLimit,
      Filters |-> IF nextList.Filters = Nil THEN existingList.Filters ELSE nextList.Filters,
      SlowGetAllRooms |-> IF nextList.SlowGetAllRooms = Nil THEN existingList.SlowGetAllRooms
                          ELSE nextList.SlowGetAllRooms ]

\* a list the previous request does not have: the sort defaults to recency
AddedList(nextList) ==
    IF OptLen(nextList.Sort) = 0
    THEN [ nextList EXCEPT !.Sort = Some(<< SortByRecency >>) ]
    ELSE nextList

\* a merge that carries over the lists of the previous request the incoming one does not
\* supply
ApplyDeltaLists_KeepsPrevious(rLists, nextLists) ==
    [ i \in 1..Max(Len(rLists), Len(nextLists)) |->
        IF i > Len(nextLists) THEN rLists[i]
        ELSE IF i > Len(rLists) THEN AddedList(nextLists[i])
        ELSE MergeList(rLists[i], nextLists[i]) ]

\* "lists := make([]RequestList, len(nextReq.Lists))": one list per incoming list
ApplyDeltaLists(rLists, nextLists) ==
    [ i \in 1..Len(nextLists) |->
        IF i > Len(rLists) THEN AddedList(nextLists[i])
        ELSE MergeList(rLists[i], nextLists[i]) ]

\* nextReq.Lists after the call: the default sort of an added list is written into the
\* caller's request
DefaultedLists(rLists, nextLists) ==
    [ i \in 1..Len(nextLists) |->
        IF i > Len(rLists) THEN AddedList(nextLists[i]) ELSE nextLists[i] ]

\* a delta that is as long as the result only: the lists the incoming request drops are
\* not reported
DeltaLists_ResultOnly(rLists, resultLists) ==
    [ i \in 1..Len(resultLists) |->
        [ Prev |-> IF i <= Len(rLists) THEN Some(rLists[i]) ELSE Nil,
          Curr |-> Some(resultLists[i]) ] ]

\* the delta is as large as the longest list of lists
DeltaLists(rLists, resultLists) ==
    [ i \in 1..Max(Len(rLists), Len(resultLists)) |->
        [ Prev |-> IF i <= Len(rLists) THEN Some(rLists[i]) ELSE Nil,
          Curr |-> IF i <= Len(resultLists) THEN Some(resultLists[i]) ELSE Nil ] ]

\* the merge of the subscriptions where an incoming subscription does not replace the
\* entry the previous request holds for the room
ApplyDeltaSubs_KeepsExisting(r, nextReq) ==
    LET afterOld == DOMAIN r.RoomSubscriptions \ r.UnsubscribeRooms
        oldUnsubs == DOMAIN r.RoomSubscriptions \cap r.UnsubscribeRooms
        afterNew == afterOld \cup DOMAIN nextReq.RoomSubscriptions
        newUnsubs == { room \in nextReq.UnsubscribeRooms :
                          room \in afterNew /\ room \notin DOMAIN nextReq.RoomSubscriptions }
        kept == afterNew \ nextReq.UnsubscribeRooms
    IN  [ resultSubs |-> [ room \in kept |->
                             IF room \in afterOld
                             THEN r.RoomSubscriptions[room]
                             ELSE nextReq.RoomSubscriptions[room] ],
          Unsubs |-> oldUnsubs \cup newUnsubs,
          Subs |-> { room \in kept : room \notin DOMAIN r.RoomSubscriptions } ]

\* the merge of the subscriptions where delta.Subs lists every incoming subscription that
\* is kept, already subscribed or not
ApplyDeltaSubs_ReportsResent(r, nextReq) ==
    LET afterOld == DOMAIN r.RoomSubscriptions \ r.UnsubscribeRooms
        oldUnsubs == DOMAIN r.RoomSubscriptions \cap r.UnsubscribeRooms
        afterNew == afterOld \cup DOMAIN nextReq.RoomSubscriptions
        newUnsubs == { room \in nextReq.UnsubscribeRooms :
                          room \in afterNew /\ room \notin DOMAIN nextReq.RoomSubscriptions }
        kept == afterNew \ nextReq.UnsubscribeRooms
    IN  [ resultSubs |-> [ room \in kept |->
                             IF room \in DOMAIN nextReq.RoomSubscriptions
                             THEN nextReq.RoomSubscriptions[room]
                             ELSE r.RoomSubscriptions[room] ],
          Unsubs |-> oldUnsubs \cup newUnsubs,
          Subs |-> { room \in kept : room \in DOMAIN nextReq.RoomSubscriptions
                                       \/ room \notin DOMAIN r.RoomSubscriptions } ]

\* old.subs -> apply old.unsubs -> apply new.subs -> apply new.unsubs
ApplyDeltaSubs(r, nextReq) ==
    LET afterOld == DOMAIN r.RoomSubscriptions \ r.UnsubscribeRooms
        oldUnsubs == DOMAIN r.RoomSubscriptions \cap r.UnsubscribeRooms
        afterNew == afterOld \cup DOMAIN nextReq.RoomSubscriptions
        newUnsubs == { room \in nextReq.UnsubscribeRooms :
                          room \in afterNew /\ room \notin DOMAIN nextReq.RoomSubscriptions }
        kept == afterNew \ nextReq.UnsubscribeRooms
    IN  [ resultSubs |-> [ room \in kept |->
                             IF room \in DOMAIN nextReq.RoomSubscriptions
                             THEN nextReq.RoomSubscriptions[room]
                             ELSE r.RoomSubscriptions[room] ],
          Unsubs |-> oldUnsubs \cup newUnsubs,
          Subs |-> { room \in kept : room \notin DOMAIN r.RoomSubscriptions } ]

\* Request.ApplyDelta: prev is Nil or Some(request)
ApplyDelta(prev, nextReq) ==
    LET r == IF prev = Nil THEN EmptyRequest ELSE Val(prev)
        lists == ApplyDeltaLists(r.Lists, nextReq.Lists)
        s == ApplyDeltaSubs(r, nextReq)
    IN  [ result |-> Request(lists, s.resultSubs, {}),
          delta |-> [ Subs |-> s.Subs, Unsubs |-> s.Unsubs,
                      Lists |-> DeltaLists(r.Lists, lists) ],
          nextReq |-> [ nextReq EXCEPT !.Lists = DefaultedLists(r.Lists, nextReq.Lists) ] ]

----------------------------------------------------------------------------
(* RequestList: the move geometry of a windowed list *)

\* an insert operation written for any index that is not negative, tracked or not
WriteInsertOp_Untracked(ranges, insertedIndex, roomID) ==
    IF insertedIndex < 0 THEN Nil
    ELSE Some([ Operation |-> "INSERT", Index |-> insertedIndex, RoomID |-> roomID ])

\* RequestList.WriteInsertOp: Nil for an index that is negative or not tracked
WriteInsertOp(ranges, insertedIndex, roomID) ==
    IF insertedIndex < 0 THEN Nil
    ELSE IF ~Inside(ranges, insertedIndex) THEN Nil
    ELSE Some([ Operation |-> "INSERT", Index |-> insertedIndex, RoomID |-> roomID ])

\* RequestList.WriteDeleteOp: Nil for an index that is negative or not tracked; the op
\* carries no room
WriteDeleteOp(ranges, deletedIndex) ==
    IF deletedIndex < 0 THEN Nil
    ELSE IF ~Inside(ranges, deletedIndex) THEN Nil
    ELSE Some([ Operation |-> "DELETE", Index |-> deletedIndex, RoomID |-> "" ])

\* the ranges between the two indices, a range that holds one of them included
jumpedOverRanges_Touching(ranges, fromIndex, toIndex) ==
    LET hi == IF fromIndex < toIndex THEN toIndex ELSE fromIndex
        lo == IF fromIndex < toIndex THEN fromIndex ELSE toIndex
    IN  SelectSeq(ranges, LAMBDA r : r[1] >= lo /\ r[1] <= hi /\ r[2] >= lo /\ r[2] <= hi)

\* RequestList.jumpedOverRanges: the ranges lying strictly between the two indices
jumpedOverRanges(ranges, fromIndex, toIndex) ==
    LET hi == IF fromIndex < toIndex THEN toIndex ELSE fromIndex
        lo == IF fromIndex < toIndex THEN fromIndex ELSE toIndex
    IN  SelectSeq(ranges, LAMBDA r : r[1] > lo /\ r[1] < hi /\ r[2] > lo /\ r[2] < hi)

\* one pair per jumped-over range, (lo, hi) whatever the direction
JumpedFromTos_Ascending(jumped, fromIndex, toIndex) ==
    [ k \in DOMAIN jumped |-> << jumped[k][1], jumped[k][2] >> ]

\* one pair per jumped-over range: (hi, lo) heading towards zero, (lo, hi) otherwise
JumpedFromTos(jumped, fromIndex, toIndex) ==
    [ k \in DOMAIN jumped |->
        IF fromIndex > toIndex THEN << jumped[k][2], jumped[k][1] >>
        ELSE << jumped[k][1], jumped[k][2] >> ]

\* the move indexes of the table above the function, where two indices inside ranges give
\* the pair (fromIndex, toIndex) whether the two ranges are the same or not
CalculateMoveIndexes_AnyTwoRanges(ranges, fromIndex, toIndex) ==
    LET isFromInsideRange == InsideRange(ranges, fromIndex) # Nil
        isToInsideRange == InsideRange(ranges, toIndex) # Nil
        jumped == jumpedOverRanges(ranges, fromIndex, toIndex)
    IN  IF isFromInsideRange /\ isToInsideRange
        THEN [ fromTos |-> << << fromIndex, toIndex >> >>, ok |-> TRUE ]
        ELSE IF ~isFromInsideRange /\ ~isToInsideRange
        THEN IF jumped = << >>
             THEN [ fromTos |-> << >>, ok |-> FALSE ]
             ELSE [ fromTos |-> JumpedFromTos(jumped, fromIndex, toIndex), ok |-> TRUE ]
        ELSE [ fromTos |->
                 (IF isFromInsideRange
                  THEN << << fromIndex,
                             ClosestInDirection(ranges, fromIndex, toIndex < fromIndex) >> >>
                  ELSE << >>)
                 \o (IF isToInsideRange
                     THEN << << ClosestInDirection(ranges, toIndex, fromIndex < toIndex),
                                toIndex >> >>
                     ELSE << >>)
                 \o JumpedFromTos(jumped, fromIndex, toIndex),
               ok |-> TRUE ]

\* RequestList.CalculateMoveIndexes
CalculateMoveIndexes(ranges, fromIndex, toIndex) ==
    LET fromRng == InsideRange(ranges, fromIndex)
        toRng == InsideRange(ranges, toIndex)
        isFromInsideRange == fromRng # Nil
        isToInsideRange == toRng # Nil
        jumped == jumpedOverRanges(ranges, fromIndex, toIndex)
    IN  IF isFromInsideRange /\ isToInsideRange /\ fromRng = toRng
        THEN [ fromTos |-> << << fromIndex, toIndex >> >>, ok |-> TRUE ]
        ELSE IF ~isFromInsideRange /\ ~isToInsideRange
        THEN IF jumped = << >>
             THEN [ fromTos |-> << >>, ok |-> FALSE ]
             ELSE [ fromTos |-> JumpedFromTos(jumped, fromIndex, toIndex), ok |-> TRUE ]
        ELSE [ fromTos |->
                 (IF isFromInsideRange
                  THEN << << fromIndex,
                             ClosestInDirection(ranges, fromIndex, toIndex < fromIndex) >> >>
                  ELSE << >>)
                 \o (IF isToInsideRange
                     THEN << << ClosestInDirection(ranges, toIndex, fromIndex < toIndex),
                                toIndex >> >>
                     ELSE << >>)
                 \o JumpedFromTos(jumped, fromIndex, toIndex),
               ok |-> TRUE ]

----------------------------------------------------------------------------
(* Response, ResponseOp, the Room payloads *)

\* a Room payload: the initial projection, the delta projection or only the room identifier
Room(roomID, kind) == [ RoomID |-> roomID, Kind |-> kind ]

ResponseOpRange(operation, r, roomIDs) ==
    [ Operation |-> operation, Range |-> r, Index |-> -1, RoomIDs |-> roomIDs, Room |-> Nil ]

ResponseOpSingle(operation, index, room) ==
    [ Operation |-> operation, Range |-> << >>, Index |-> index, RoomIDs |-> << >>,
      Room |-> room ]

NoPayloads == [ r \in {} |-> Room(r, "initial") ]

Response(subs, count, ops) == [ RoomSubscriptions |-> subs, Count |-> count, Ops |-> ops ]

\* the request's only list: the single-list fields of the muxed request
ReqRooms(req) == req.Lists[1].Ranges
ReqSort(req) == req.Lists[1].Sort

----------------------------------------------------------------------------
(* ConnState *)

\* the reverse index written only for the rooms it does not hold yet
PositionsAfter_NewRoomsOnly(positions, rooms) ==
    [ r \in DOMAIN positions \cup RangeOf(RoomIDsOf(rooms)) |->
        IF r \in DOMAIN positions THEN positions[r]
        ELSE SetMax({ k \in DOMAIN rooms : rooms[k].RoomID = r }) - 1 ]

\* ConnState.sort: sort, then write every room's index into the reverse index
PositionsAfter(positions, rooms) ==
    [ r \in DOMAIN positions \cup RangeOf(RoomIDsOf(rooms)) |->
        IF r \in RangeOf(RoomIDsOf(rooms))
        THEN SetMax({ k \in DOMAIN rooms : rooms[k].RoomID = r }) - 1
        ELSE positions[r] ]

\* moveRoom with the DELETE always at fromIndex, tracked or not
moveRoom_DeleteAtFrom(roomID, fromIndex, toIndex, ranges, onlySendRoomID) ==
    IF fromIndex = toIndex
    THEN << ResponseOpSingle("UPDATE", fromIndex,
                Some(Room(roomID, IF onlySendRoomID THEN "stub" ELSE "delta"))) >>
    ELSE << ResponseOpSingle("DELETE", fromIndex, Nil),
            ResponseOpSingle("INSERT", toIndex,
                Some(Room(roomID, IF onlySendRoomID THEN "stub" ELSE "initial"))) >>

\* moveRoom without the UPDATE shortcut: a DELETE and an INSERT even when nothing moves
moveRoom_AlwaysMoves(roomID, fromIndex, toIndex, ranges, onlySendRoomID) ==
    LET deleteIndex == IF Inside(ranges, fromIndex) THEN fromIndex
                       ELSE LowerClamp(ranges, fromIndex)
    IN  << ResponseOpSingle("DELETE", deleteIndex, Nil),
           ResponseOpSingle("INSERT", toIndex,
               Some(Room(roomID, IF onlySendRoomID THEN "stub" ELSE "initial"))) >>

\* moveRoom with the flag read the other way round: the projection of the room when the
\* flag is set, the room identifier alone when it is not
moveRoom_ProjectionWhenFlagged(roomID, fromIndex, toIndex, ranges, onlySendRoomID) ==
    IF fromIndex = toIndex
    THEN << ResponseOpSingle("UPDATE", fromIndex,
                Some(Room(roomID, IF onlySendRoomID THEN "delta" ELSE "stub"))) >>
    ELSE LET deleteIndex == IF Inside(ranges, fromIndex) THEN fromIndex
                            ELSE LowerClamp(ranges, fromIndex)
         IN  << ResponseOpSingle("DELETE", deleteIndex, Nil),
                ResponseOpSingle("INSERT", toIndex,
                    Some(Room(roomID, IF onlySendRoomID THEN "initial" ELSE "stub"))) >>

\* ConnState.moveRoom
moveRoom(roomID, fromIndex, toIndex, ranges, onlySendRoomID) ==
    IF fromIndex = toIndex
    THEN << ResponseOpSingle("UPDATE", fromIndex,
                Some(Room(roomID, IF onlySendRoomID THEN "stub" ELSE "delta"))) >>
    ELSE LET deleteIndex == IF Inside(ranges, fromIndex) THEN fromIndex
                            ELSE LowerClamp(ranges, fromIndex)
         IN  << ResponseOpSingle("DELETE", deleteIndex, Nil),
                ResponseOpSingle("INSERT", toIndex,
                    Some(Room(roomID, IF onlySendRoomID THEN "stub" ELSE "initial"))) >>

\* ConnState.updateRoomSubscriptions: the stored subscriptions and the payloads
updateRoomSubscriptions(stored, muxed, subs, unsubs) ==
    LET known == { r \in subs : r \in DOMAIN muxed.RoomSubscriptions }
    IN  [ roomSubscriptions |->
              [ r \in (DOMAIN stored \cup known) \ unsubs |->
                  IF r \in known THEN muxed.RoomSubscriptions[r] ELSE stored[r] ],
          result |-> [ r \in known |-> Room(r, "initial") ] ]

\* the removed ranges are forgotten: no INVALIDATE is sent for them
InvalidateOps_None(ranges) == << >>

\* the loop "send INVALIDATE for these ranges"
InvalidateOps(ranges) ==
    [ k \in DOMAIN ranges |-> ResponseOpRange("INVALIDATE", ranges[k], << >>) ]

\* the INVALIDATE of a sort change without the check for a previous sort
SortChangeOps_Unguarded(prevSort, newRooms) == InvalidateOps(newRooms)

\* the sort order has changed: INVALIDATE every range of the new window, if there was a
\* previous sort
SortChangeOps(prevSort, newRooms) ==
    IF prevSort # Nil THEN InvalidateOps(newRooms) ELSE << >>

\* SYNC with the range taken as half-open: the room at hi is left out
SyncOps_HalfOpen(ranges, rooms) ==
    [ k \in DOMAIN ranges |->
        ResponseOpRange("SYNC", ranges[k],
            RoomIDsOf(SliceInto(<< << ranges[k][1], ranges[k][2] - 1 >> >>, rooms)[1])) ]

\* the loop "send full room data for these ranges"
SyncOps(ranges, rooms) ==
    [ k \in DOMAIN ranges |->
        ResponseOpRange("SYNC", ranges[k], RoomIDsOf(SliceInto(<< ranges[k] >>, rooms)[1])) ]

\* the live-loop condition without the check for room-subscription payloads
EntersLiveLoop_IgnoresSubscriptions(same, ops, subscriptions) ==
    same # << >> /\ ops = << >>

\* the condition under which the request blocks in the live loop
EntersLiveLoop(same, ops, subscriptions) ==
    same # << >> /\ ops = << >> /\ DOMAIN subscriptions = {}

\* ConnState.load: what LoadJoinedRooms answers is ld
load(ld, req, rooms, positions, pos) ==
    IF ld.err
    THEN [ rooms |-> rooms, positions |-> positions, loadPosition |-> pos ]
    ELSE LET sorted == Sort(ld.rooms, ReqSort(req))
         IN  [ rooms |-> sorted, positions |-> PositionsAfter(positions, sorted),
               loadPosition |-> ld.pos ]

\* ConnState.onIncomingRequest up to the live loop; prev is s.muxedReq and stored is
\* s.roomSubscriptions when the request arrives
onIncomingRequest(prev, stored, req, rooms, positions) ==
    LET prevRange == IF prev = Nil THEN Nil ELSE ReqRooms(Val(prev))
        prevSort == IF prev = Nil THEN Nil ELSE ReqSort(Val(prev))
        ad == ApplyDelta(prev, req)
        muxed == IF prev = Nil THEN req ELSE ad.result
        newSubs == IF prev = Nil THEN DOMAIN req.RoomSubscriptions ELSE ad.delta.Subs
        newUnsubs == IF prev = Nil THEN {} ELSE ad.delta.Unsubs
        urs == updateRoomSubscriptions(stored, muxed, newSubs, newUnsubs)
        newRooms == IF ReqRooms(muxed) = Nil THEN << >> ELSE Val(ReqRooms(muxed))
        d == IF prevRange # Nil THEN Delta(Val(prevRange), newRooms)
             ELSE [ added |-> newRooms, removed |-> << >>, same |-> << >> ]
        sortChanged == prevSort # ReqSort(muxed)
        invalidated == IF sortChanged THEN SortChangeOps(prevSort, newRooms) ELSE << >>
        sorted == IF sortChanged THEN Sort(rooms, ReqSort(muxed)) ELSE rooms
        added == IF sortChanged THEN newRooms ELSE d.added
        removed == IF sortChanged THEN << >> ELSE d.removed
        same == IF sortChanged THEN << >> ELSE d.same
        ops == invalidated \o InvalidateOps(removed) \o SyncOps(added, sorted)
    IN  [ muxed |-> muxed, sortChanged |-> sortChanged,
          roomSubscriptions |-> urs.roomSubscriptions,
          rooms |-> sorted,
          positions |-> IF sortChanged THEN PositionsAfter(positions, sorted) ELSE positions,
          response |-> Response(urs.result, Len(rooms), ops),
          live |-> EntersLiveLoop(same, ops, urs.result) ]

\* the live loop without the substitution of the room at the clamped index: the ops report
\* the room of the event wherever it went
processEvent_ReportsEventRoom(ev, muxed, rooms, positions, subscribed) ==
    LET ranges == Val(ReqRooms(muxed))
        known == ev.roomID \in DOMAIN positions
        fromIndex == IF known THEN positions[ev.roomID] ELSE Len(rooms)
        panics == known /\ fromIndex >= Len(rooms)
        touched == IF panics THEN rooms
                   ELSE IF known
                   THEN [ rooms EXCEPT ![fromIndex + 1].LastMessageTimestamp = ev.timestamp ]
                   ELSE Append(rooms, RoomConnMetadata(ev.roomID, ev.timestamp))
        sorted == Sort(touched, ReqSort(muxed))
        newPositions == PositionsAfter(positions, sorted)
        isSubscribedToRoom == ev.roomID \in subscribed
        movedTo == newPositions[ev.roomID]
        inside == Inside(ranges, movedTo)
        toIndex == IF inside THEN movedTo ELSE UpperClamp(ranges, movedTo)
        skip == ~inside /\ (toIndex >= Len(sorted) \/ toIndex = -1)
        reported == ev.roomID
    IN  [ panics |-> panics,
          rooms |-> IF panics THEN rooms ELSE sorted,
          positions |-> IF panics THEN positions ELSE newPositions,
          delta |-> IF isSubscribedToRoom /\ ~panics THEN { ev.roomID } ELSE {},
          skip |-> skip,
          fromIndex |-> fromIndex,
          toIndex |-> toIndex,
          ops |-> IF panics \/ skip THEN << >>
                  ELSE moveRoom(reported, fromIndex, toIndex, ranges, isSubscribedToRoom) ]

\* the live loop with the delta projection written for every event, subscribed room or not
processEvent_DeltaForEveryRoom(ev, muxed, rooms, positions, subscribed) ==
    LET ranges == Val(ReqRooms(muxed))
        known == ev.roomID \in DOMAIN positions
        fromIndex == IF known THEN positions[ev.roomID] ELSE Len(rooms)
        panics == known /\ fromIndex >= Len(rooms)
        touched == IF panics THEN rooms
                   ELSE IF known
                   THEN [ rooms EXCEPT ![fromIndex + 1].LastMessageTimestamp = ev.timestamp ]
                   ELSE Append(rooms, RoomConnMetadata(ev.roomID, ev.timestamp))
        sorted == Sort(touched, ReqSort(muxed))
        newPositions == PositionsAfter(positions, sorted)
        isSubscribedToRoom == ev.roomID \in subscribed
        movedTo == newPositions[ev.roomID]
        inside == Inside(ranges, movedTo)
        toIndex == IF inside THEN movedTo ELSE UpperClamp(ranges, movedTo)
        skip == ~inside /\ (toIndex >= Len(sorted) \/ toIndex = -1)
        reported == IF inside THEN ev.roomID ELSE At(sorted, toIndex).RoomID
    IN  [ panics |-> panics,
          rooms |-> IF panics THEN rooms ELSE sorted,
          positions |-> IF panics THEN positions ELSE newPositions,
          delta |-> IF ~panics THEN { ev.roomID } ELSE {},
          skip |-> skip,
          fromIndex |-> fromIndex,
          toIndex |-> toIndex,
          ops |-> IF panics \/ skip THEN << >>
                  ELSE moveRoom(reported, fromIndex, toIndex, ranges, isSubscribedToRoom) ]

\* one event of the live loop; ev is the event taken from the inbox
processEvent(ev, muxed, rooms, positions, subscribed) ==
    LET ranges == Val(ReqRooms(muxed))
        known == ev.roomID \in DOMAIN positions
        fromIndex == IF known THEN positions[ev.roomID] ELSE Len(rooms)
        panics == known /\ fromIndex >= Len(rooms)
        touched == IF panics THEN rooms
                   ELSE IF known
                   THEN [ rooms EXCEPT ![fromIndex + 1].LastMessageTimestamp = ev.timestamp ]
                   ELSE Append(rooms, RoomConnMetadata(ev.roomID, ev.timestamp))
        sorted == Sort(touched, ReqSort(muxed))
        newPositions == PositionsAfter(positions, sorted)
        isSubscribedToRoom == ev.roomID \in subscribed
        movedTo == newPositions[ev.roomID]
        inside == Inside(ranges, movedTo)
        toIndex == IF inside THEN movedTo ELSE UpperClamp(ranges, movedTo)
        skip == ~inside /\ (toIndex >= Len(sorted) \/ toIndex = -1)
        reported == IF inside THEN ev.roomID ELSE At(sorted, toIndex).RoomID
    IN  [ panics |-> panics,
          rooms |-> IF panics THEN rooms ELSE sorted,
          positions |-> IF panics THEN positions ELSE newPositions,
          delta |-> IF isSubscribedToRoom /\ ~panics THEN { ev.roomID } ELSE {},
          skip |-> skip,
          fromIndex |-> fromIndex,
          toIndex |-> toIndex,
          ops |-> IF panics \/ skip THEN << >>
                  ELSE moveRoom(reported, fromIndex, toIndex, ranges, isSubscribedToRoom) ]

----------------------------------------------------------------------------
(* The client: a local array of room identifiers, "" where it holds none *)

ClientIdx == 0..MaxWindow

EmptyClient == [ p \in ClientIdx |-> "" ]

\* DELETE i then INSERT j: the entries between i and j shift by one slot
Shift(c, i, j, roomID) ==
    [ p \in DOMAIN c |->
        IF p = j THEN roomID
        ELSE IF i < j /\ i <= p /\ p < j THEN (IF p + 1 \in DOMAIN c THEN c[p + 1] ELSE "")
        ELSE IF j < i /\ j < p /\ p <= i THEN (IF p - 1 \in DOMAIN c THEN c[p - 1] ELSE "")
        ELSE c[p] ]

RECURSIVE ApplyOps(_, _)
ApplyOps(c, ops) ==
    IF ops = << >> THEN c
    ELSE LET op == Head(ops)
             rest == Tail(ops)
         IN  CASE op.Operation = "SYNC" ->
                    ApplyOps([ p \in DOMAIN c |->
                                 IF op.Range[1] <= p /\ p <= op.Range[2]
                                 THEN (IF p - op.Range[1] < Len(op.RoomIDs)
                                       THEN op.RoomIDs[p - op.Range[1] + 1] ELSE "")
                                 ELSE c[p] ], rest)
               [] op.Operation = "INVALIDATE" ->
                    ApplyOps([ p \in DOMAIN c |->
                                 IF op.Range[1] <= p /\ p <= op.Range[2] THEN "" ELSE c[p] ], rest)
               [] op.Operation = "DELETE" ->
                    IF rest # << >> /\ Head(rest).Operation = "INSERT"
                    THEN ApplyOps(Shift(c, op.Index, Head(rest).Index, Val(Head(rest).Room).RoomID),
                                  Tail(rest))
                    ELSE ApplyOps([ p \in DOMAIN c |-> IF p = op.Index THEN "" ELSE c[p] ], rest)
               [] op.Operation = "INSERT" ->
                    ApplyOps([ p \in DOMAIN c |->
                                 IF p = op.Index THEN Val(op.Room).RoomID ELSE c[p] ], rest)
               [] OTHER -> ApplyOps(c, rest)

----------------------------------------------------------------------------
(* Inputs *)

\* the joined rooms the global cache holds, unsorted
JoinedRooms == << RoomConnMetadata("B", 1), RoomConnMetadata("A", 2) >>

\* what GlobalCache.LoadJoinedRooms can answer:
\* an error, or a position (0 when the upstream has none yet) and the joined rooms
LoadResults ==
    { [ err |-> TRUE, pos |-> 0, rooms |-> << >> ] }
    \cup { [ err |-> FALSE, pos |-> p, rooms |-> JoinedRooms ] : p \in 0..MaxPos }

HealthyLoadResults == { ld \in LoadResults : ~ld.err /\ ld.pos > 0 }

NoLoad == [ err |-> TRUE, pos |-> 0, rooms |-> << >> ]

\* the windows a client asks for
W0 == << <<0, 0>> >>
W12 == << <<1, 2>> >>
W0and2 == << <<0, 0>>, <<2, 2>> >>

Windows == { W0, W12, W0and2 }

NoSubs == EmptySubs
SubA == [ r \in { "A" } |-> RoomSubscription(1) ]
\* the subscription to A sent again with a longer timeline
SubALonger == [ r \in { "A" } |-> RoomSubscription(MaxLimit) ]

\* the delta requests of a client: each sets one thing, or nothing (a poll), and one sets
\* the window and the sort order together
ConnRequests ==
    { Request(<< RequestList(Some(w), Nil, 0) >>, NoSubs, {}) : w \in Windows }
    \cup { Request(<< RequestList(Nil, Some(<< k >>), 0) >>, NoSubs, {}) :
             k \in { SortByRecency, SortByName } }
    \cup { Request(<< RequestList(Some(W0and2), Some(<< SortByRecency >>), 0) >>, NoSubs, {}),
           Request(<< RequestList(Nil, Nil, 0) >>, NoSubs, {}),
           Request(<< RequestList(Nil, Nil, 0) >>, SubA, {}),
           Request(<< RequestList(Nil, Nil, 0) >>, SubALonger, {}),
           Request(<< RequestList(Nil, Nil, 0) >>, NoSubs, { "A" }) }

\* the events of the upstream: a new message in B, a new message in C (a room not joined
\* when the list was loaded), and a change of A's unread counts, which carries no position
\* and the timestamp the cache holds
Events ==
    { [ roomID |-> "B", latestPos |-> 1, timestamp |-> MaxTs ],
      [ roomID |-> "C", latestPos |-> MaxPos, timestamp |-> MaxTs ],
      [ roomID |-> "A", latestPos |-> 0, timestamp |-> 0 ] }

----------------------------------------------------------------------------
(* Actions *)

\* the last step taken: its kind, the indices of the move, the events the request has taken,
\* the position and the room of the event, the error returned
NoHist ==
    [ step |-> "init", from |-> -1, to |-> -1, taken |-> 0, pos |-> -1, err |-> Nil,
      room |-> "" ]

Init ==
    /\ muxedReq = Nil
    /\ sortedJoinedRooms = << >>
    /\ sortedJoinedRoomsPositions = [ r \in {} |-> 0 ]
    /\ roomSubscriptions = EmptySubs
    /\ loadPosition = 0
    /\ updateEvents = << >>
    /\ pc = "idle"
    /\ response = Response(NoPayloads, 0, << >>)
    /\ client = EmptyClient
    /\ hist = NoHist
    /\ nRequests = 0
    /\ nEvents = 0
    /\ mv = << >>
    /\ cacheSubscribed = TRUE
    /\ discarded = FALSE
    /\ selectTimer = 0

\* ConnState.HandleIncomingRequest: load on the first request, then onIncomingRequest
HandleIncomingRequest(req, ld) ==
    /\ pc = "idle"
    /\ nRequests < MaxRequests
    /\ nRequests' = nRequests + 1
    /\ LET l == IF loadPosition = 0
                THEN load(ld, req, sortedJoinedRooms, sortedJoinedRoomsPositions, loadPosition)
                ELSE [ rooms |-> sortedJoinedRooms, positions |-> sortedJoinedRoomsPositions,
                       loadPosition |-> loadPosition ]
           o == onIncomingRequest(muxedReq, roomSubscriptions, req, l.rooms, l.positions)
       IN  /\ muxedReq' = Some(o.muxed)
           /\ sortedJoinedRooms' = o.rooms
           /\ sortedJoinedRoomsPositions' = o.positions
           /\ roomSubscriptions' = o.roomSubscriptions
           /\ loadPosition' = l.loadPosition
           /\ response' = o.response
           /\ pc' = IF o.live THEN "live" ELSE "idle"
           /\ client' = IF o.live THEN client ELSE ApplyOps(client, o.response.Ops)
           /\ hist' = [ step |-> "request", from |-> -1, to |-> -1, taken |-> 0, pos |-> -1,
                        err |-> Nil, room |-> "" ]
    /\ selectTimer' = 0
    /\ UNCHANGED << updateEvents, nEvents, mv, cacheSubscribed, discarded >>

\* the position check of the live loop without its guard: loadPosition takes the position
\* of whatever event was read last
AdvanceLoadPosition_Overwrite(pos, latestPos) == latestPos

\* "if updateEvent.latestPos > s.loadPosition { s.loadPosition = updateEvent.latestPos }"
AdvanceLoadPosition(pos, latestPos) == IF latestPos > pos THEN latestPos ELSE pos

\* the arm "an event is available" without the break: the request keeps waiting after an
\* event that produced ops
LiveEvent_NoBreak ==
    /\ pc = "live"
    /\ updateEvents # << >>
    /\ LET ev == Head(updateEvents)
           e == processEvent(ev, Val(muxedReq), sortedJoinedRooms, sortedJoinedRoomsPositions,
                             DOMAIN roomSubscriptions)
           resp == Response([ r \in DOMAIN response.RoomSubscriptions \cup e.delta |->
                                IF r \in e.delta THEN Room(r, "delta")
                                ELSE response.RoomSubscriptions[r] ],
                            response.Count, response.Ops \o e.ops)
       IN  /\ updateEvents' = Tail(updateEvents)
           /\ loadPosition' = AdvanceLoadPosition(loadPosition, ev.latestPos)
           /\ sortedJoinedRooms' = e.rooms
           /\ sortedJoinedRoomsPositions' = e.positions
           /\ response' = IF e.panics THEN response ELSE resp
           /\ pc' = IF e.panics THEN "idle" ELSE "live"
           /\ selectTimer' = IF e.panics THEN 0 ELSE 1 - selectTimer
           /\ client' = client
           /\ hist' = [ hist EXCEPT !.step = IF e.panics THEN "panic" ELSE "event",
                                    !.from = IF e.panics \/ e.skip THEN -1 ELSE e.fromIndex,
                                    !.to = IF e.panics \/ e.skip THEN -1 ELSE e.toIndex,
                                    !.taken = Min(hist.taken + 1, InboxCap + 1),
                                    !.room = ev.roomID,
                                    !.pos = ev.latestPos ]
    /\ UNCHANGED << muxedReq, roomSubscriptions, nRequests, nEvents, mv, cacheSubscribed, discarded >>

\* the live loop's arm "an event is available"; after a `continue` the loop comes back to
\* the select, which arms a new 10 s timer
LiveEvent ==
    /\ pc = "live"
    /\ updateEvents # << >>
    /\ LET ev == Head(updateEvents)
           e == processEvent(ev, Val(muxedReq), sortedJoinedRooms, sortedJoinedRoomsPositions,
                             DOMAIN roomSubscriptions)
           resp == Response([ r \in DOMAIN response.RoomSubscriptions \cup e.delta |->
                                IF r \in e.delta THEN Room(r, "delta")
                                ELSE response.RoomSubscriptions[r] ],
                            response.Count, e.ops)
           returns == e.panics \/ ~e.skip
       IN  /\ updateEvents' = Tail(updateEvents)
           /\ loadPosition' = AdvanceLoadPosition(loadPosition, ev.latestPos)
           /\ sortedJoinedRooms' = e.rooms
           /\ sortedJoinedRoomsPositions' = e.positions
           /\ response' = IF e.panics THEN response ELSE resp
           /\ pc' = IF returns THEN "idle" ELSE "live"
           /\ selectTimer' = IF returns THEN 0 ELSE 1 - selectTimer
           /\ client' = IF returns /\ ~e.panics THEN ApplyOps(client, e.ops) ELSE client
           /\ hist' = [ hist EXCEPT !.step = IF e.panics THEN "panic" ELSE "event",
                                    !.from = IF e.panics \/ e.skip THEN -1 ELSE e.fromIndex,
                                    !.to = IF e.panics \/ e.skip THEN -1 ELSE e.toIndex,
                                    !.taken = Min(hist.taken + 1, InboxCap + 1),
                                    !.room = ev.roomID,
                                    !.pos = ev.latestPos ]
    /\ UNCHANGED << muxedReq, roomSubscriptions, nRequests, nEvents, mv, cacheSubscribed, discarded >>

\* the live loop's arm "the 10 s timer fires": the response goes out as it is
LiveTimeout ==
    /\ pc = "live"
    /\ pc' = "idle"
    /\ selectTimer' = 0
    /\ hist' = [ hist EXCEPT !.step = "timeout", !.from = -1, !.to = -1, !.pos = -1,
                             !.room = "" ]
    /\ client' = ApplyOps(client, response.Ops)
    /\ UNCHANGED << muxedReq, sortedJoinedRooms, sortedJoinedRoomsPositions, roomSubscriptions,
                    loadPosition, updateEvents, response, nRequests, nEvents, mv,
                    cacheSubscribed, discarded >>

\* the live loop's arm "the request context is done"
LiveCancel ==
    /\ pc = "live"
    /\ pc' = "idle"
    /\ selectTimer' = 0
    /\ hist' = [ hist EXCEPT !.step = "cancel", !.from = -1, !.to = -1, !.pos = -1,
                             !.room = "" ]
    /\ client' = ApplyOps(client, response.Ops)
    /\ UNCHANGED << muxedReq, sortedJoinedRooms, sortedJoinedRoomsPositions, roomSubscriptions,
                    loadPosition, updateEvents, response, nRequests, nEvents, mv,
                    cacheSubscribed, discarded >>

\* a callback that keeps loadPosition up to date itself, on the poller's goroutine, besides
\* pushing the event
Deliver_AdvancesLoadPosition(eventData) ==
    /\ IF eventData.latestPos # 0 /\ eventData.latestPos < loadPosition
       THEN UNCHANGED << updateEvents, discarded >>
       ELSE IF Len(updateEvents) < InboxCap
       THEN updateEvents' = Append(updateEvents, eventData) /\ UNCHANGED discarded
       ELSE discarded' = TRUE /\ UNCHANGED updateEvents
    /\ loadPosition' = AdvanceLoadPosition(loadPosition, eventData.latestPos)
    /\ UNCHANGED << muxedReq, sortedJoinedRooms, sortedJoinedRoomsPositions, roomSubscriptions,
                    pc, response, client, hist, nRequests, mv, cacheSubscribed, selectTimer >>

\* the body of ConnState.OnNewEvent: an event below loadPosition is not pushed; the send
\* goes through when the inbox has room and is given up, with a warning, after 5 s when it
\* has none (a slot freed within the 5 s is the interleaving "LiveEvent, then the send")
Deliver(eventData) ==
    /\ IF eventData.latestPos # 0 /\ eventData.latestPos < loadPosition
       THEN UNCHANGED << updateEvents, discarded >>
       ELSE IF Len(updateEvents) < InboxCap
       THEN updateEvents' = Append(updateEvents, eventData) /\ UNCHANGED discarded
       ELSE discarded' = TRUE /\ UNCHANGED updateEvents
    /\ UNCHANGED << muxedReq, sortedJoinedRooms, sortedJoinedRoomsPositions, roomSubscriptions,
                    loadPosition, pc, response, client, hist, nRequests, mv, cacheSubscribed,
                    selectTimer >>

\* ConnState.OnNewEvent, called on a poller's goroutine
OnNewEvent(eventData) ==
    /\ nEvents < MaxEvents
    /\ nEvents' = nEvents + 1
    /\ Deliver(eventData)

\* ConnState.Destroy: the user cache drops the subscription; the ConnState keeps no mark of it
Destroy ==
    /\ cacheSubscribed' = FALSE
    /\ UNCHANGED << connVars, nRequests, nEvents, mv, discarded, selectTimer >>

ClientRequest ==
    \E req \in ConnRequests :
        \E ld \in (IF loadPosition = 0 THEN LoadResults ELSE { NoLoad }) :
            HandleIncomingRequest(req, ld)

Produce == \E eventData \in Events : OnNewEvent(eventData)

Next == ClientRequest \/ LiveEvent \/ LiveTimeout \/ LiveCancel \/ Produce

Spec == Init /\ [][Next]_vars

\* the same connection over an upstream whose LoadJoinedRooms always succeeds with a
\* position above 0: the load runs once, on the first request
ClientRequestLoaded ==
    \E req \in ConnRequests :
        \E ld \in (IF loadPosition = 0 THEN HealthyLoadResults ELSE { NoLoad }) :
            HandleIncomingRequest(req, ld)

NextLoaded == ClientRequestLoaded \/ LiveEvent \/ LiveTimeout \/ LiveCancel \/ Produce

SpecLoaded == Init /\ [][NextLoaded]_vars

\* the same connection with its tear-down: Destroy can be called at any time
NextDestroy ==
    ClientRequestLoaded \/ LiveEvent \/ LiveTimeout \/ LiveCancel \/ Produce \/ Destroy

SpecDestroy == Init /\ [][NextDestroy]_vars

\* the same connection under an endless stream of events: the pollers are not counted.
\* Every pass through the select of the live loop arms a timer of its own, which fires if
\* the loop stays in that pass; the timer of a pass that ended with `continue` is dropped.
ProduceSteady == \E eventData \in Events : Deliver(eventData) /\ UNCHANGED nEvents

NextLive ==
    ClientRequestLoaded \/ LiveEvent \/ LiveTimeout \/ LiveCancel \/ ProduceSteady

SpecLive ==
    /\ Init
    /\ [][NextLive]_vars
    /\ WF_vars(LiveTimeout /\ selectTimer = 0)
    /\ WF_vars(LiveTimeout /\ selectTimer = 1)

----------------------------------------------------------------------------
(* Properties *)

\* the ranges the connection tracks (none before the first request sets them)
TrackedRanges ==
    IF muxedReq = Nil \/ ReqRooms(Val(muxedReq)) = Nil THEN << >>
    ELSE Val(ReqRooms(Val(muxedReq)))

\* the last step was a live event that produced list ops
EventMoved == hist.step = "event" /\ hist.from >= 0

\* C3: a live event that moves a room from fromIndex to a different toIndex yields exactly
\* DELETE(deleteIndex) then INSERT(toIndex, the room now at toIndex), where deleteIndex is
\* fromIndex when that is tracked and LowerClamp(fromIndex) otherwise; with ranges [[0,4]]
\* a move 3 -> 0 is DELETE 3, INSERT 0 and a move 6 -> 0 is DELETE 4, INSERT 0
C3_MoveIsDeleteThenInsert ==
    /\ (EventMoved /\ hist.from # hist.to) =>
          LET deleteIndex == IF Inside(TrackedRanges, hist.from) THEN hist.from
                             ELSE LowerClamp(TrackedRanges, hist.from)
          IN  /\ Len(response.Ops) = 2
              /\ response.Ops[1].Operation = "DELETE"
              /\ response.Ops[1].Index = deleteIndex
              /\ response.Ops[1].Room = Nil
              /\ response.Ops[2].Operation = "INSERT"
              /\ response.Ops[2].Index = hist.to
              /\ response.Ops[2].Room # Nil
              /\ Val(response.Ops[2].Room).RoomID = At(sortedJoinedRooms, hist.to).RoomID
    /\ LET ops == moveRoom("G", 3, 0, << << 0, 4 >> >>, FALSE)
       IN  /\ Len(ops) = 2
           /\ ops[1].Operation = "DELETE" /\ ops[1].Index = 3
           /\ ops[2].Operation = "INSERT" /\ ops[2].Index = 0
           /\ Val(ops[2].Room).RoomID = "G"
    /\ LET ops == moveRoom("G", 6, 0, << << 0, 4 >> >>, FALSE)
       IN  /\ Len(ops) = 2
           /\ ops[1].Operation = "DELETE" /\ ops[1].Index = 4
           /\ ops[2].Operation = "INSERT" /\ ops[2].Index = 0
           /\ Val(ops[2].Room).RoomID = "G"

\* a live event has moved a room that was not tracked: the DELETE is at the clamped index
C3_Witness ==
    /\ EventMoved
    /\ hist.from # hist.to
    /\ ~Inside(TrackedRanges, hist.from)
    /\ Len(response.Ops) = 2
    /\ response.Ops[1].Index = LowerClamp(TrackedRanges, hist.from)
    /\ response.Ops[1].Index # hist.from

\* C4: a live event that leaves the room at the same index (fromIndex = toIndex) yields
\* exactly one list op, UPDATE(fromIndex, room), and no DELETE or INSERT
C4_SameIndexIsOneUpdate ==
    (EventMoved /\ hist.from = hist.to) =>
        /\ Len(response.Ops) = 1
        /\ response.Ops[1].Operation = "UPDATE"
        /\ response.Ops[1].Index = hist.from
        /\ response.Ops[1].Room # Nil
        /\ Val(response.Ops[1].Room).RoomID = At(sortedJoinedRooms, hist.from).RoomID

\* a live event has left a tracked room where it was and the response holds the UPDATE
C4_Witness ==
    /\ EventMoved
    /\ hist.from = hist.to
    /\ Inside(TrackedRanges, hist.from)
    /\ Len(response.Ops) = 1
    /\ response.Ops[1].Operation = "UPDATE"

\* the step handles a client request (HandleIncomingRequest)
RequestStep == nRequests' = nRequests + 1

\* the sort order of the muxed request (Nil before the first request)
TrackedSort == IF muxedReq = Nil THEN Nil ELSE ReqSort(Val(muxedReq))

OpShape(ops) == [ k \in DOMAIN ops |-> << ops[k].Operation, ops[k].Range >> ]

RecencyList == Sort(JoinedRooms, Some(<< SortByRecency >>))

RangesRequest(ranges) == Request(<< RequestList(Some(ranges), Nil, 0) >>, EmptySubs, {})

MuxedWith(ranges) ==
    Some(Request(<< RequestList(Some(ranges), Some(<< SortByRecency >>), 0) >>, EmptySubs, {}))

\* [[0,9]] -> [[0,9],[20,29]] yields exactly SYNC [20,29];
\* [[0,9],[20,29]] -> [[0,9]] yields exactly INVALIDATE [20,29]
C5_Examples ==
    /\ OpShape(onIncomingRequest(MuxedWith(<< << 0, 9 >> >>), EmptySubs,
                                 RangesRequest(<< << 0, 9 >>, << 20, 29 >> >>), RecencyList,
                                 PositionsAfter([ r \in {} |-> 0 ], RecencyList)).response.Ops)
         = << << "SYNC", << 20, 29 >> >> >>
    /\ OpShape(onIncomingRequest(MuxedWith(<< << 0, 9 >>, << 20, 29 >> >>), EmptySubs,
                                 RangesRequest(<< << 0, 9 >> >>), RecencyList,
                                 PositionsAfter([ r \in {} |-> 0 ], RecencyList)).response.Ops)
         = << << "INVALIDATE", << 20, 29 >> >> >>

\* C5: a request that changes the tracked ranges but not the sort order yields one INVALIDATE
\* for each range only the previous ranges have, then one SYNC for each range only the new
\* ranges have, and nothing for the ranges in both
C5_RangeChangeInvalidatesThenSyncs ==
    [][ /\ C5_Examples
        /\ (RequestStep /\ muxedReq # Nil /\ TrackedSort' = TrackedSort
                /\ TrackedRanges' # TrackedRanges) =>
              LET prev == TrackedRanges
                  next == TrackedRanges'
                  removedOnly == SelectSeq(prev, LAMBDA r : \A k \in DOMAIN next : next[k] # r)
                  addedOnly == SelectSeq(next, LAMBDA r : \A k \in DOMAIN prev : prev[k] # r)
              IN  OpShape(response'.Ops)
                    = [ k \in DOMAIN removedOnly |-> << "INVALIDATE", removedOnly[k] >> ]
                      \o [ k \in DOMAIN addedOnly |-> << "SYNC", addedOnly[k] >> ]
      ]_vars

\* a request has replaced one window by another under the same sort order: its response
\* holds an INVALIDATE followed by a SYNC
C5_Witness ==
    /\ hist.step = "request"
    /\ nRequests >= 2
    /\ Len(response.Ops) = 2
    /\ response.Ops[1].Operation = "INVALIDATE"
    /\ response.Ops[2].Operation = "SYNC"
    /\ response.Ops[1].Range # response.Ops[2].Range

\* the list is in the order of sortBy
IsSortedBy(rooms, sortBy) ==
    \A i \in DOMAIN rooms : \A j \in DOMAIN rooms :
        i < j => ~Less(IF sortBy = Nil THEN << >> ELSE Val(sortBy), rooms[j], rooms[i])

\* C6: when the merged sort order differs from the previous one and a previous sort existed,
\* the list is re-sorted and the response is an INVALIDATE for every range of the new window
\* followed by a SYNC for every range of the new window; when no previous sort existed no
\* INVALIDATE is emitted for the change of sort, and none at all on the first request
C6_SortChangeInvalidatesAndSyncsAll ==
    [][ RequestStep =>
          LET next == TrackedRanges'
              ops == response'.Ops
          IN  /\ (TrackedSort # Nil /\ TrackedSort' # TrackedSort) =>
                    /\ OpShape(ops)
                         = [ k \in DOMAIN next |-> << "INVALIDATE", next[k] >> ]
                           \o [ k \in DOMAIN next |-> << "SYNC", next[k] >> ]
                    /\ IsSortedBy(sortedJoinedRooms', TrackedSort')
                    /\ loadPosition # 0 =>
                          RangeOf(sortedJoinedRooms') = RangeOf(sortedJoinedRooms)
              /\ (TrackedSort = Nil /\ (TrackedSort' # Nil \/ muxedReq = Nil)) =>
                    \A k \in DOMAIN ops : ops[k].Operation # "INVALIDATE"
      ]_vars

\* a request has changed the sort order of a window that was sorted before: every range is
\* invalidated and synced again
C6_Witness ==
    /\ hist.step = "request"
    /\ nRequests >= 2
    /\ Len(TrackedRanges) = 2
    /\ OpShape(response.Ops)
         = [ k \in DOMAIN TrackedRanges |-> << "INVALIDATE", TrackedRanges[k] >> ]
           \o [ k \in DOMAIN TrackedRanges |-> << "SYNC", TrackedRanges[k] >> ]

\* a user with 15 joined rooms, every room with a timestamp of its own
Rooms15 == [ k \in 1..15 |-> RoomConnMetadata(k, ((k * 7) % 15) + 1) ]

FreshRequest15 ==
    Request(<< RequestList(Some(<< << 0, 9 >> >>), Some(<< SortByRecency >>), 0) >>,
            EmptySubs, {})

\* a fresh connection, 15 joined rooms, ranges [[0,9]] by recency: one SYNC [0,9] with the
\* 10 most recent rooms, most recent first, and count = 15
C7_FreshConnection ==
    LET l == load([ err |-> FALSE, pos |-> 1, rooms |-> Rooms15 ], FreshRequest15,
                  << >>, [ r \in {} |-> 0 ], 0)
        resp == onIncomingRequest(Nil, EmptySubs, FreshRequest15, l.rooms, l.positions).response
        ids == resp.Ops[1].RoomIDs
    IN  /\ OpShape(resp.Ops) = << << "SYNC", << 0, 9 >> >> >>
        /\ Len(ids) = 10
        /\ \A i \in 1..9 : Rooms15[ids[i]].LastMessageTimestamp
                              > Rooms15[ids[i + 1]].LastMessageTimestamp
        /\ \A k \in 1..15 : k \notin RangeOf(ids) =>
              Rooms15[k].LastMessageTimestamp < Rooms15[ids[10]].LastMessageTimestamp
        /\ resp.Count = 15

\* C7: the SYNC of a range [lo,hi] carries exactly the rooms at positions lo..min(hi, n-1)
\* of the sorted list of n rooms, in list order
C7_SyncCarriesTheSlice ==
    /\ C7_FreshConnection
    /\ hist.step = "request" =>
          \A k \in DOMAIN response.Ops :
              response.Ops[k].Operation = "SYNC" =>
                  LET lo == response.Ops[k].Range[1]
                      last == Min(response.Ops[k].Range[2], Len(sortedJoinedRooms) - 1)
                  IN  response.Ops[k].RoomIDs
                        = [ i \in 1..Max(0, last - lo + 1) |->
                              At(sortedJoinedRooms, lo + i - 1).RoomID ]

\* a SYNC of a range that reaches past the end of the list carries the rooms there are
C7_Witness ==
    /\ hist.step = "request"
    /\ \E k \in DOMAIN response.Ops :
          /\ response.Ops[k].Operation = "SYNC"
          /\ response.Ops[k].Range[2] > Len(sortedJoinedRooms) - 1
          /\ response.Ops[k].Range[1] < response.Ops[k].Range[2]
          /\ Len(response.Ops[k].RoomIDs) = 1

\* a range both the previous and the new window have
HasUnchangedRange ==
    /\ muxedReq # Nil
    /\ \E r \in RangeOf(TrackedRanges) : r \in RangeOf(TrackedRanges')

\* C8 as stated: a request waits on the inbox only if a range is unchanged and it produced
\* no list op and no room-subscription payload; every other request returns at once and
\* leaves the inbox and loadPosition as they were
C8_OnlyIdleRequestsWait ==
    [][ RequestStep =>
          /\ pc' = "live" =>
                /\ HasUnchangedRange
                /\ response'.Ops = << >>
                /\ DOMAIN response'.RoomSubscriptions = {}
          /\ pc' # "live" =>
                /\ updateEvents' = updateEvents
                /\ loadPosition' = loadPosition
      ]_vars

\* C8 (amended): as C8, but loadPosition is left as it was only by a request that did not
\* run load, which is every request that arrives with loadPosition # 0
C8_OnlyIdleRequestsWaitAfterLoad ==
    [][ RequestStep =>
          /\ pc' = "live" =>
                /\ HasUnchangedRange
                /\ response'.Ops = << >>
                /\ DOMAIN response'.RoomSubscriptions = {}
          /\ pc' # "live" =>
                /\ updateEvents' = updateEvents
                /\ loadPosition # 0 => loadPosition' = loadPosition
      ]_vars

\* a request after the load has returned at once, with ops, while an event waits in the inbox
C8_Witness ==
    /\ hist.step = "request"
    /\ pc = "idle"
    /\ nRequests >= 2
    /\ loadPosition > 0
    /\ response.Ops # << >>
    /\ updateEvents # << >>

\* the step takes an event from the inbox in the live loop
TakesEvent == pc = "live" /\ Len(updateEvents') < Len(updateEvents)

C10_LoadedEventsAreNotReplayed ==
    [][ (TakesEvent /\ Head(updateEvents).latestPos # 0
             /\ Head(updateEvents).latestPos <= loadPosition) =>
          /\ sortedJoinedRooms' = sortedJoinedRooms
          /\ response'.Ops = << >>
      ]_vars

\* C1: once a response is out, the client's array holds at every tracked position below the
\* list length the room the server's sorted list holds there
C1_ClientMatchesServer ==
    pc = "idle" =>
        \A p \in ClientIdx :
            (Inside(TrackedRanges, p) /\ p < Len(sortedJoinedRooms)) =>
                client[p] = At(sortedJoinedRooms, p).RoomID

\* C11: loadPosition never decreases: no step of the connection, a load, a request or a
\* live event with any latestPos, leaves it below its previous value
C11_LoadPositionNeverDecreases ==
    [][ loadPosition' >= loadPosition ]_vars

\* the live loop has taken an event whose position is below loadPosition, and loadPosition
\* has kept its value
C11_Witness ==
    /\ hist.step = "event"
    /\ hist.pos > 0
    /\ hist.pos < loadPosition

\* the error a request on a destroyed connection is answered with
ConnectionClosed == Some("connection-closed")

\* C12: when a producer's send to the full inbox times out the connection is destroyed (the
\* user cache subscription is dropped) and every request after that is answered with
\* connection-closed and leaves the connection state alone
C12_InboxTimeoutDestroysTheConnection ==
    [][ /\ (discarded' /\ ~discarded) => ~cacheSubscribed'
        /\ (discarded /\ RequestStep) =>
              /\ hist'.err = ConnectionClosed
              /\ UNCHANGED << muxedReq, sortedJoinedRooms, roomSubscriptions, loadPosition >>
      ]_vars

\* C13: once Destroy has been called, every client request is answered with
\* connection-closed and changes nothing of the connection, and a further Destroy changes
\* nothing either
C13_RequestsAfterDestroyAreRejected ==
    [][ /\ (~cacheSubscribed /\ RequestStep) =>
              /\ hist'.err = ConnectionClosed
              /\ UNCHANGED << muxedReq, sortedJoinedRooms, sortedJoinedRoomsPositions,
                              roomSubscriptions, loadPosition, updateEvents, response, pc >>
        /\ ~cacheSubscribed => ~cacheSubscribed'
      ]_vars

\* C14: every request that enters the live loop eventually returns a response with no
\* error, whatever events arrive while it waits
C14_LiveRequestsReturn ==
    (pc = "live") ~> (pc = "idle" /\ hist.err = Nil /\ hist.step # "panic")

\* C15: in every state between two handler steps, every room of the sorted list is mapped
\* by the reverse index to the position it holds, and no room identifier is at two positions
C15_ReverseIndexMatchesTheList ==
    /\ \A k \in DOMAIN sortedJoinedRooms :
          /\ sortedJoinedRooms[k].RoomID \in DOMAIN sortedJoinedRoomsPositions
          /\ sortedJoinedRoomsPositions[sortedJoinedRooms[k].RoomID] = k - 1
    /\ \A i \in DOMAIN sortedJoinedRooms : \A j \in DOMAIN sortedJoinedRooms :
          i # j => sortedJoinedRooms[i].RoomID # sortedJoinedRooms[j].RoomID

\* a live event has appended a room that was not in the list and the sort has taken it from
\* the end to the top: all three rooms have changed position
C15_Witness ==
    /\ hist.step = "event"
    /\ Len(sortedJoinedRooms) = 3
    /\ At(sortedJoinedRooms, 0).RoomID = "C"
    /\ sortedJoinedRoomsPositions["C"] = 0

----------------------------------------------------------------------------
(* The move geometry on its own: every (ranges, fromIndex, toIndex) up to MaxIdx *)

ListIdx == 0..MaxIdx

\* the sequences of at most n ranges over lo..MaxIdx, in ascending order and not overlapping
RECURSIVE AscendingRanges(_, _)
AscendingRanges(lo, n) ==
    IF n = 0 THEN { << >> }
    ELSE { << >> }
         \cup UNION { UNION { { << << a, b >> >> \o rest : rest \in AscendingRanges(b + 1, n - 1) } :
                               b \in a..MaxIdx } :
                       a \in lo..MaxIdx }

\* every set of at most MaxRanges ranges, in ascending order and not overlapping
MoveRanges == AscendingRanges(0, MaxRanges)

WellFormedRanges(ranges) ==
    /\ \A k \in DOMAIN ranges : ranges[k][1] <= ranges[k][2]
    /\ \A k \in DOMAIN ranges : k > 1 => ranges[k - 1][2] < ranges[k][1]

InitMove ==
    /\ muxedReq = Nil
    /\ sortedJoinedRooms = << >>
    /\ sortedJoinedRoomsPositions = [ r \in {} |-> 0 ]
    /\ roomSubscriptions = EmptySubs
    /\ loadPosition = 0
    /\ updateEvents = << >>
    /\ pc = "idle"
    /\ response = Response(NoPayloads, 0, << >>)
    /\ client = EmptyClient
    /\ hist = NoHist
    /\ nRequests = 0
    /\ nEvents = 0
    /\ cacheSubscribed = TRUE
    /\ discarded = FALSE
    /\ selectTimer = 0
    /\ \E ranges \in { rs \in MoveRanges : WellFormedRanges(rs) } :
         \E fromIndex \in ListIdx : \E toIndex \in ListIdx :
            mv = [ ranges |-> ranges, fromIndex |-> fromIndex, toIndex |-> toIndex,
                   called |-> FALSE, fromTos |-> << >>, ok |-> FALSE ]

\* the call CalculateMoveIndexes(fromIndex, toIndex) on a list with these ranges
Move ==
    /\ ~mv.called
    /\ LET r == CalculateMoveIndexes(mv.ranges, mv.fromIndex, mv.toIndex)
       IN  mv' = [ mv EXCEPT !.called = TRUE, !.fromTos = r.fromTos, !.ok = r.ok ]
    /\ UNCHANGED << connVars, nRequests, nEvents, cacheSubscribed, discarded, selectTimer >>

NextMove == Move

SpecMove == InitMove /\ [][NextMove]_vars

----------------------------------------------------------------------------
(* Properties of the move geometry *)

\* the list before the move: the entry at position p is p
ListBefore == [ p \in ListIdx |-> p ]

\* the list after the entry at fromIndex has been moved to toIndex
ListAfter(fromIndex, toIndex) == Shift(ListBefore, fromIndex, toIndex, fromIndex)

\* both indices of every pair lie in one range
PairsInsideOneRange(ranges, fromTos) ==
    \A k \in DOMAIN fromTos :
        /\ InsideRange(ranges, fromTos[k][1]) # Nil
        /\ InsideRange(ranges, fromTos[k][1]) = InsideRange(ranges, fromTos[k][2])

\* each pair (f, t) applied to the view: remove the entry at f, insert at t what the list
\* holds there after the move
RECURSIVE ApplyFromTos(_, _, _)
ApplyFromTos(view, fromTos, after) ==
    IF fromTos = << >> THEN view
    ELSE ApplyFromTos(Shift(view, Head(fromTos)[1], Head(fromTos)[2],
                            after[Head(fromTos)[2]]),
                      Tail(fromTos), after)

SameWindowedView(ranges, a, b) ==
    \A p \in ListIdx : Inside(ranges, p) => a[p] = b[p]

\* C2: when CalculateMoveIndexes returns ok, its pairs, each applied inside the range that
\* holds it, turn the windowed view before the move into the windowed view after it; when
\* it returns not ok the two windowed views are the same
C2_MovePairsTransformTheView ==
    mv.called =>
        LET after == ListAfter(mv.fromIndex, mv.toIndex)
        IN  IF mv.ok
            THEN /\ PairsInsideOneRange(mv.ranges, mv.fromTos)
                 /\ SameWindowedView(mv.ranges,
                                     ApplyFromTos(ListBefore, mv.fromTos, after), after)
            ELSE SameWindowedView(mv.ranges, ListBefore, after)

----------------------------------------------------------------------------
(* The request algebra on its own: ApplyDelta over bounded requests *)

DeltaRooms == { "A", "B" }

\* the room-subscription maps over DeltaRooms, each room with a timeline limit of its own
DeltaSubscriptions ==
    UNION { [ S -> { RoomSubscription(l) : l \in 1..MaxLimit } ] : S \in SUBSET DeltaRooms }

\* the lists a request can carry: every field null, empty or set; a timeline limit can be
\* any integer the JSON body holds
RequestLists ==
    [ Ranges : { Nil, Some(<< >>), Some(W0) },
      Sort : { Nil, Some(<< >>), Some(<< SortByName >>) },
      RequiredState : { Nil, Some(<< << "m.room.name", "" >> >>) },
      TimelineLimit : -1..MaxLimit,
      Filters : { Nil, Some([ IsDM |-> TRUE ]) },
      SlowGetAllRooms : { Nil, Some(TRUE) } ]

\* requests that differ in their subscriptions only
SubscriptionRequests ==
    { Request(<< >>, subs, unsubs) : subs \in DeltaSubscriptions, unsubs \in SUBSET DeltaRooms }

\* requests that differ in their one list only
ListRequests == { Request(<< l >>, EmptySubs, {}) : l \in RequestLists }

\* requests that differ in the number of their lists: none, one or more
ShapeLists == { RequestList(Some(W0), Some(<< SortByName >>), 1), RequestList(Nil, Nil, 0) }

ShapeRequests ==
    { Request(lists, EmptySubs, {}) :
        lists \in UNION { [ 1..n -> ShapeLists ] : n \in 0..MaxLists } }

NoDelta == [ Subs |-> {}, Unsubs |-> {}, Lists |-> << >> ]

\* the request algebra before the call
DeltaCall(prev, nextReq) ==
    [ prev |-> prev, nextReq |-> nextReq, called |-> FALSE, result |-> EmptyRequest,
      delta |-> NoDelta, sent |-> nextReq, again |-> Nil ]

InitDelta ==
    /\ muxedReq = Nil
    /\ sortedJoinedRooms = << >>
    /\ sortedJoinedRoomsPositions = [ r \in {} |-> 0 ]
    /\ roomSubscriptions = EmptySubs
    /\ loadPosition = 0
    /\ updateEvents = << >>
    /\ pc = "idle"
    /\ response = Response(NoPayloads, 0, << >>)
    /\ client = EmptyClient
    /\ hist = NoHist
    /\ nRequests = 0
    /\ nEvents = 0
    /\ cacheSubscribed = TRUE
    /\ discarded = FALSE
    /\ selectTimer = 0
    /\ \/ \E prev \in { Nil } \cup { Some(r) : r \in SubscriptionRequests } :
            \E nextReq \in SubscriptionRequests : mv = DeltaCall(prev, nextReq)
       \/ \E prev \in { Nil, Some(EmptyRequest) } \cup { Some(r) : r \in ListRequests } :
            \E nextReq \in ListRequests : mv = DeltaCall(prev, nextReq)
       \/ \E prev \in { Nil } \cup { Some(r) : r \in ShapeRequests } :
            \E nextReq \in ShapeRequests : mv = DeltaCall(prev, nextReq)

\* the call prev.ApplyDelta(nextReq); sent is the caller's request object after the call
CallApplyDelta ==
    /\ ~mv.called
    /\ LET ad == ApplyDelta(mv.prev, mv.nextReq)
       IN  mv' = [ mv EXCEPT !.called = TRUE, !.result = ad.result, !.delta = ad.delta,
                             !.sent = ad.nextReq ]
    /\ UNCHANGED << connVars, nRequests, nEvents, cacheSubscribed, discarded, selectTimer >>

\* the call result.ApplyDelta(r) with the request of the first call: decoded again from the
\* same body (fresh), or the very object the first call was given (same)
CallApplyDeltaAgain ==
    /\ mv.called
    /\ mv.again = Nil
    /\ mv' = [ mv EXCEPT !.again =
                 Some([ fresh |-> ApplyDelta(Some(mv.result), mv.nextReq).result,
                        same |-> ApplyDelta(Some(mv.result), mv.sent).result ]) ]
    /\ UNCHANGED << connVars, nRequests, nEvents, cacheSubscribed, discarded, selectTimer >>

NextDelta == CallApplyDelta \/ CallApplyDeltaAgain

SpecDelta == InitDelta /\ [][NextDelta]_vars

----------------------------------------------------------------------------
(* Properties of the request algebra *)

\* the request ApplyDelta was called on: a nil request has no lists and no subscriptions
DeltaPrev == IF mv.prev = Nil THEN EmptyRequest ELSE Val(mv.prev)

\* C16: the subscriptions of the result hold a room exactly when it is in the previous
\* subscriptions and not in the previous unsubscribes, or in the incoming subscriptions, and
\* is not in the incoming unsubscribes; its entry is the incoming one when there is one and
\* the previous one otherwise
C16_SubscriptionsAreMerged ==
    mv.called =>
        LET r == DeltaPrev
            n == mv.nextReq
            out == mv.result.RoomSubscriptions
        IN  \A room \in DeltaRooms :
               LET old == room \in DOMAIN r.RoomSubscriptions /\ room \notin r.UnsubscribeRooms
                   new == room \in DOMAIN n.RoomSubscriptions
               IN  /\ room \in DOMAIN out <=> ((old \/ new) /\ room \notin n.UnsubscribeRooms)
                   /\ room \in DOMAIN out =>
                         out[room] = IF new THEN n.RoomSubscriptions[room]
                                     ELSE r.RoomSubscriptions[room]

\* a room subscribed before is sent again with another timeline limit, and another room the
\* previous request holds is unsubscribed: the result holds the incoming entry of the first
\* and nothing of the second
C16_Witness ==
    /\ mv.called
    /\ "A" \in DOMAIN DeltaPrev.RoomSubscriptions
    /\ "A" \in DOMAIN mv.nextReq.RoomSubscriptions
    /\ DeltaPrev.RoomSubscriptions["A"] # mv.nextReq.RoomSubscriptions["A"]
    /\ "A" \in DOMAIN mv.result.RoomSubscriptions
    /\ mv.result.RoomSubscriptions["A"] = mv.nextReq.RoomSubscriptions["A"]
    /\ "B" \in DOMAIN DeltaPrev.RoomSubscriptions
    /\ "B" \in mv.nextReq.UnsubscribeRooms
    /\ "B" \notin DOMAIN mv.result.RoomSubscriptions

\* C17: delta.Unsubs holds exactly the rooms of the previous subscriptions that the result
\* does not hold, without the rooms that are both in the incoming subscriptions and in the
\* incoming unsubscribes
C17_UnsubsAreTheDroppedRooms ==
    mv.called =>
        mv.delta.Unsubs
          = { room \in DOMAIN DeltaPrev.RoomSubscriptions :
                /\ room \notin DOMAIN mv.result.RoomSubscriptions
                /\ ~(room \in DOMAIN mv.nextReq.RoomSubscriptions
                        /\ room \in mv.nextReq.UnsubscribeRooms) }

\* C18: delta.Subs holds exactly the rooms of the result's subscriptions that the previous
\* subscriptions do not hold
C18_SubsAreTheNewRooms ==
    mv.called =>
        mv.delta.Subs
          = DOMAIN mv.result.RoomSubscriptions \ DOMAIN DeltaPrev.RoomSubscriptions

\* a room subscribed before is sent again with another timeline limit and a second room is
\* subscribed for the first time: only the second is in delta.Subs
C18_Witness ==
    /\ mv.called
    /\ "A" \in DOMAIN DeltaPrev.RoomSubscriptions
    /\ "A" \in DOMAIN mv.nextReq.RoomSubscriptions
    /\ DeltaPrev.RoomSubscriptions["A"] # mv.nextReq.RoomSubscriptions["A"]
    /\ "A" \in DOMAIN mv.result.RoomSubscriptions
    /\ mv.delta.Subs = { "B" }

\* list 0 is in the previous and in the incoming request
ListInBoth == Len(DeltaPrev.Lists) >= 1 /\ Len(mv.nextReq.Lists) >= 1

\* C19: for a list index in both requests, ranges, required-state, filters and
\* slow-get-all-rooms of the merged list are the incoming value when that is not null and the
\* previous value otherwise, and its timeline limit is the incoming one when that is greater
\* than 0 and the previous one otherwise
C19_SetFieldsOverrideThePrevious ==
    (mv.called /\ ListInBoth) =>
        LET old == DeltaPrev.Lists[1]
            new == mv.nextReq.Lists[1]
            out == mv.result.Lists[1]
        IN  /\ out.Ranges = IF new.Ranges # Nil THEN new.Ranges ELSE old.Ranges
            /\ out.RequiredState = IF new.RequiredState # Nil THEN new.RequiredState
                                   ELSE old.RequiredState
            /\ out.Filters = IF new.Filters # Nil THEN new.Filters ELSE old.Filters
            /\ out.SlowGetAllRooms = IF new.SlowGetAllRooms # Nil THEN new.SlowGetAllRooms
                                     ELSE old.SlowGetAllRooms
            /\ out.TimelineLimit = IF new.TimelineLimit > 0 THEN new.TimelineLimit
                                   ELSE old.TimelineLimit

\* the sort keys of a list, a nil sort and an empty one being both "no keys"
SortKeys(list) == IF list.Sort = Nil THEN << >> ELSE Val(list.Sort)

\* C20: the merged sort of a list is the incoming sort when that has keys; otherwise it is
\* the previous list's sort, or [by_recency] when there is no previous list
C20_EmptySortKeepsThePrevious ==
    (mv.called /\ Len(mv.nextReq.Lists) >= 1) =>
        LET new == mv.nextReq.Lists[1]
            out == mv.result.Lists[1]
        IN  SortKeys(out)
              = IF SortKeys(new) # << >> THEN SortKeys(new)
                ELSE IF Len(DeltaPrev.Lists) >= 1 THEN SortKeys(DeltaPrev.Lists[1])
                ELSE << SortByRecency >>

\* C21: delta.Lists is as long as the longer of the previous lists and the result's lists;
\* at each index Prev is the previous list when the previous request has that index and is
\* absent otherwise, and Curr is the result's list when the result has that index and is
\* absent otherwise
C21_DeltaListsPairPrevAndCurr ==
    mv.called =>
        /\ Len(mv.delta.Lists) = Max(Len(DeltaPrev.Lists), Len(mv.result.Lists))
        /\ \A i \in 1..Len(mv.delta.Lists) :
              /\ mv.delta.Lists[i].Prev
                   = IF i <= Len(DeltaPrev.Lists) THEN Some(DeltaPrev.Lists[i]) ELSE Nil
              /\ mv.delta.Lists[i].Curr
                   = IF i <= Len(mv.result.Lists) THEN Some(mv.result.Lists[i]) ELSE Nil

\* the previous request has two lists and the incoming one a single list: the delta has two
\* entries and the second has a Prev and no Curr
C21_Witness ==
    /\ mv.called
    /\ Len(DeltaPrev.Lists) = 2
    /\ Len(mv.result.Lists) = 1
    /\ Len(mv.delta.Lists) = 2
    /\ mv.delta.Lists[2].Prev = Some(DeltaPrev.Lists[2])
    /\ mv.delta.Lists[2].Curr = Nil

\* C22: a request applied to the result of applying it to a nil request gives the lists and
\* the subscriptions of the first application
C22_ApplyDeltaIsIdempotent ==
    (mv.again # Nil /\ mv.prev = Nil) =>
        /\ Val(mv.again).fresh.Lists = mv.result.Lists
        /\ Val(mv.again).fresh.RoomSubscriptions = mv.result.RoomSubscriptions

\* the second call given the very object of the first, whose sort the first call has set
C22_SameObjectIsIdempotent ==
    (mv.again # Nil /\ mv.prev = Nil) =>
        /\ Val(mv.again).same.Lists = mv.result.Lists
        /\ Val(mv.again).same.RoomSubscriptions = mv.result.RoomSubscriptions

----------------------------------------------------------------------------
(* Properties of the connection, continued *)

\* C23: the muxed request is nil before the first request, and every request, the first
\* included, replaces it with ApplyDelta(previous muxed request, incoming request)
C23_MuxedIsApplyDeltaOfThePrevious ==
    /\ [](nRequests = 0 => muxedReq = Nil)
    /\ [][RequestStep =>
            \E req \in ConnRequests : muxedReq' = Some(ApplyDelta(muxedReq, req).result)]_vars

\* the same for the requests after the first
C23_LaterRequestsAreMerged ==
    [][(RequestStep /\ muxedReq # Nil) =>
          \E req \in ConnRequests : muxedReq' = Some(ApplyDelta(muxedReq, req).result)]_vars

----------------------------------------------------------------------------
(* Properties of the move geometry, continued *)

\* the range boundary closest to the in-range index i, i itself included: the largest one
\* not above i heading towards zero, the smallest one not below i otherwise
NearestBoundary(ranges, i, towardsZero) ==
    IF towardsZero
    THEN SetMax({ b \in Boundaries(ranges) : b <= i })
    ELSE SetMin({ b \in Boundaries(ranges) : b >= i })

\* the ranges lying strictly between the two indices, in the order of the request
RangesBetween(ranges, fromIndex, toIndex) ==
    SelectSeq(ranges, LAMBDA r : r[1] > Min(fromIndex, toIndex) /\ r[2] < Max(fromIndex, toIndex))

\* one pair per range: (hi, lo) when the move heads towards zero, (lo, hi) otherwise
PairsOver(between, fromIndex, toIndex) ==
    [ k \in DOMAIN between |->
        IF fromIndex > toIndex THEN << between[k][2], between[k][1] >> ELSE between[k] ]

MoveFromInside == Inside(mv.ranges, mv.fromIndex)
MoveToInside == Inside(mv.ranges, mv.toIndex)

C25_BothOutsideEmitsTheJumpedRanges ==
    (mv.called /\ ~MoveFromInside /\ ~MoveToInside) =>
        LET between == RangesBetween(mv.ranges, mv.fromIndex, mv.toIndex)
        IN  IF between = << >>
            THEN ~mv.ok /\ mv.fromTos = << >>
            ELSE mv.ok /\ mv.fromTos = PairsOver(between, mv.fromIndex, mv.toIndex)

\* a move towards zero over two ranges of more than one position, neither index tracked
C25_Witness ==
    /\ mv.called
    /\ ~MoveFromInside
    /\ ~MoveToInside
    /\ mv.fromIndex > mv.toIndex
    /\ mv.ok
    /\ Len(mv.fromTos) = 2
    /\ \A k \in 1..2 : mv.fromTos[k][1] > mv.fromTos[k][2]

\* the two indices are inside two different ranges
MoveAcrossRanges ==
    /\ MoveFromInside
    /\ MoveToInside
    /\ InsideRange(mv.ranges, mv.fromIndex) # InsideRange(mv.ranges, mv.toIndex)

----------------------------------------------------------------------------
(* The list's single-index operations and the delta of two range sets on their own *)

\* the indices a caller passes: a position of the list, or -1 for "nothing deleted"
OpIdx == -1..MaxIdx

\* the range sets a request carries, at most two ranges each
DeltaRanges == AscendingRanges(0, 2)

NoRangeDelta == [ added |-> << >>, removed |-> << >>, same |-> << >> ]

InitRanges ==
    /\ muxedReq = Nil
    /\ sortedJoinedRooms = << >>
    /\ sortedJoinedRoomsPositions = [ r \in {} |-> 0 ]
    /\ roomSubscriptions = EmptySubs
    /\ loadPosition = 0
    /\ updateEvents = << >>
    /\ pc = "idle"
    /\ response = Response(NoPayloads, 0, << >>)
    /\ client = EmptyClient
    /\ hist = NoHist
    /\ nRequests = 0
    /\ nEvents = 0
    /\ cacheSubscribed = TRUE
    /\ discarded = FALSE
    /\ selectTimer = 0
    /\ \/ \E ranges \in MoveRanges : \E idx \in OpIdx : \E roomID \in DeltaRooms :
            mv = [ ranges |-> ranges, next |-> << >>, idx |-> idx, roomID |-> roomID,
                   called |-> "write", op |-> Nil, delta |-> NoRangeDelta ]
       \/ \E prev \in DeltaRanges : \E next \in DeltaRanges :
            mv = [ ranges |-> prev, next |-> next, idx |-> 0, roomID |-> "",
                   called |-> "delta", op |-> Nil, delta |-> NoRangeDelta ]

\* the call WriteInsertOp(idx, roomID) on a list with these ranges
WriteInsert ==
    /\ mv.called = "write"
    /\ mv' = [ mv EXCEPT !.called = "WriteInsertOp",
                         !.op = WriteInsertOp(mv.ranges, mv.idx, mv.roomID) ]
    /\ UNCHANGED << connVars, nRequests, nEvents, cacheSubscribed, discarded, selectTimer >>

\* the call WriteDeleteOp(idx) on a list with these ranges
WriteDelete ==
    /\ mv.called = "write"
    /\ mv' = [ mv EXCEPT !.called = "WriteDeleteOp", !.op = WriteDeleteOp(mv.ranges, mv.idx) ]
    /\ UNCHANGED << connVars, nRequests, nEvents, cacheSubscribed, discarded, selectTimer >>

\* the call prevRange.Delta(next)
CallDelta ==
    /\ mv.called = "delta"
    /\ mv' = [ mv EXCEPT !.called = "Delta", !.delta = Delta(mv.ranges, mv.next) ]
    /\ UNCHANGED << connVars, nRequests, nEvents, cacheSubscribed, discarded, selectTimer >>

NextRanges == WriteInsert \/ WriteDelete \/ CallDelta

SpecRanges == InitRanges /\ [][NextRanges]_vars

\* C27: WriteInsertOp answers an INSERT op with the index and the room exactly when the
\* index is not negative and inside a tracked range, and nothing otherwise; WriteDeleteOp
\* answers a DELETE op with the index under the same condition, and nothing otherwise
C27_OpsOnlyForTrackedIndexes ==
    /\ mv.called = "WriteInsertOp" =>
          /\ mv.op # Nil <=> (mv.idx >= 0 /\ Inside(mv.ranges, mv.idx))
          /\ mv.op # Nil =>
                /\ Val(mv.op).Operation = "INSERT"
                /\ Val(mv.op).Index = mv.idx
                /\ Val(mv.op).RoomID = mv.roomID
    /\ mv.called = "WriteDeleteOp" =>
          /\ mv.op # Nil <=> (mv.idx >= 0 /\ Inside(mv.ranges, mv.idx))
          /\ mv.op # Nil =>
                /\ Val(mv.op).Operation = "DELETE"
                /\ Val(mv.op).Index = mv.idx

\* an insert at an index of the second of two ranges, the list tracking positions on both
\* sides of a gap
C27_Witness ==
    /\ mv.called = "WriteInsertOp"
    /\ Len(mv.ranges) = 2
    /\ mv.idx > mv.ranges[2][1]
    /\ ~Inside(mv.ranges, mv.ranges[1][2] + 1)
    /\ mv.op = Some([ Operation |-> "INSERT", Index |-> mv.idx, RoomID |-> mv.roomID ])

\* the positions a range set covers
Positions(ranges) == UNION { ranges[k][1]..ranges[k][2] : k \in DOMAIN ranges }

\* C29: added and same together cover exactly the positions of next, removed and same
\* together exactly the positions of prev, and no position is both in added and in removed,
\* also when a range of next overlaps a range of prev in part
C29_DeltaSplitsThePositions ==
    mv.called = "Delta" =>
        /\ Positions(mv.delta.added) \cup Positions(mv.delta.same) = Positions(mv.next)
        /\ Positions(mv.delta.removed) \cup Positions(mv.delta.same) = Positions(mv.ranges)
        /\ Positions(mv.delta.added) \cap Positions(mv.delta.removed) = {}

\* the first two parts of C29 alone: the covers of next and of prev
C29_DeltaCoversBothSets ==
    mv.called = "Delta" =>
        /\ Positions(mv.delta.added) \cup Positions(mv.delta.same) = Positions(mv.next)
        /\ Positions(mv.delta.removed) \cup Positions(mv.delta.same) = Positions(mv.ranges)

----------------------------------------------------------------------------
(* Properties of the live loop, continued *)

\* the ops of a response that carry a room: UPDATE and INSERT
RoomOps(ops) == { k \in DOMAIN ops : ops[k].Room # Nil }

\* a live step that took an event and answered with ops
AnswersEvent == TakesEvent /\ hist'.step = "event" /\ hist'.from >= 0

\* C30 as stated: the room of a live UPDATE or INSERT is the room identifier alone exactly
\* when the room of the event has no active subscription, and a projection of the room
\* exactly when it has one
C30_StubWithoutSubscription ==
    [][AnswersEvent =>
          \A k \in RoomOps(response'.Ops) :
             Val(response'.Ops[k].Room).Kind = "stub"
               <=> Head(updateEvents).roomID \notin DOMAIN roomSubscriptions]_vars

\* C30 (amended): the room of a live UPDATE or INSERT is the room identifier alone exactly
\* when the room of the event has an active subscription, whose delta projection is then in
\* the response's room subscriptions; without a subscription an UPDATE carries the delta
\* projection and an INSERT the initial projection
C30_StubWithSubscription ==
    [][AnswersEvent =>
          LET ev == Head(updateEvents)
              isSubscribedToRoom == ev.roomID \in DOMAIN roomSubscriptions
          IN  /\ RoomOps(response'.Ops) # {}
              /\ \A k \in RoomOps(response'.Ops) :
                    LET op == response'.Ops[k]
                    IN  Val(op.Room).Kind
                          = IF isSubscribedToRoom THEN "stub"
                            ELSE IF op.Operation = "UPDATE" THEN "delta" ELSE "initial"
              /\ isSubscribedToRoom =>
                    /\ ev.roomID \in DOMAIN response'.RoomSubscriptions
                    /\ response'.RoomSubscriptions[ev.roomID] = Room(ev.roomID, "delta")]_vars

\* a live event of a subscribed room answered with an op inside the window: the op holds
\* the room identifier alone and the room subscriptions of the response hold the delta
C30_Witness ==
    /\ hist.step = "event"
    /\ hist.from >= 0
    /\ pc = "idle"
    /\ \E k \in RoomOps(response.Ops) :
          LET room == Val(response.Ops[k].Room)
          IN  /\ room.Kind = "stub"
              /\ room.RoomID \in DOMAIN roomSubscriptions
              /\ room.RoomID \in DOMAIN response.RoomSubscriptions
              /\ response.RoomSubscriptions[room.RoomID].Kind = "delta"

\* a live event of a room without subscription answered with its projection
C30_ProjectionReached ==
    /\ hist.step = "event"
    /\ hist.from >= 0
    /\ \E k \in RoomOps(response.Ops) :
          /\ Val(response.Ops[k].Room).Kind # "stub"
          /\ Val(response.Ops[k].Room).RoomID \notin DOMAIN roomSubscriptions

\* the load results with which LoadJoinedRooms fails
FailedLoads == { ld \in LoadResults : ld.err }

\* C28: when the load of the joined rooms fails on the first request, the request returns
\* an error and the sorted list, the reverse index, the muxed request, the room
\* subscriptions and loadPosition are left as they were
C28_FailedLoadFailsTheRequest ==
    [][\A req \in ConnRequests : \A ld \in FailedLoads :
          (nRequests = 0 /\ HandleIncomingRequest(req, ld)) =>
              /\ hist'.err # Nil
              /\ UNCHANGED << sortedJoinedRooms, sortedJoinedRoomsPositions, muxedReq,
                              roomSubscriptions, loadPosition >>]_vars

\* what a failed load does leave alone: the sorted list, the reverse index and loadPosition
C28_FailedLoadKeepsTheList ==
    [][\A req \in ConnRequests : \A ld \in FailedLoads :
          (nRequests = 0 /\ HandleIncomingRequest(req, ld)) =>
              UNCHANGED << sortedJoinedRooms, sortedJoinedRoomsPositions, loadPosition >>]_vars

\* the index the room of the last event has in the sorted list
MovedTo == sortedJoinedRoomsPositions[hist.room]

\* C31: when the new index of the moved room is outside every tracked range it is clamped
\* with UpperClamp; a clamped index of -1 or at or beyond the list length gives no list op,
\* and otherwise the ops report the room that now occupies the clamped index, not the room of
\* the event
C31_ClampedMoveReportsTheRoomAtTheIndex ==
    (hist.step = "event" /\ ~Inside(TrackedRanges, MovedTo)) =>
        LET clamped == UpperClamp(TrackedRanges, MovedTo)
        IN  IF clamped = -1 \/ clamped >= Len(sortedJoinedRooms)
            THEN response.Ops = << >> /\ pc = "live"
            ELSE /\ RoomOps(response.Ops) # {}
                 /\ \A k \in RoomOps(response.Ops) :
                       /\ response.Ops[k].Index = clamped
                       /\ Val(response.Ops[k].Room).RoomID
                            = At(sortedJoinedRooms, clamped).RoomID
                       /\ Val(response.Ops[k].Room).RoomID # hist.room

\* the room of the event went to an index below the window, and the op reports the room
\* that moved into the first position of the window
C31_Witness ==
    /\ hist.step = "event"
    /\ hist.from >= 0
    /\ ~Inside(TrackedRanges, MovedTo)
    /\ MovedTo < hist.to
    /\ \E k \in RoomOps(response.Ops) :
          /\ response.Ops[k].Index = hist.to
          /\ Val(response.Ops[k].Room).RoomID = At(sortedJoinedRooms, hist.to).RoomID
          /\ Val(response.Ops[k].Room).RoomID # hist.room

\* the clamped index is -1 or beyond the list: the event is taken without an op
C31_NoOpReached ==
    /\ hist.step = "event"
    /\ ~Inside(TrackedRanges, MovedTo)
    /\ hist.from = -1
    /\ response.Ops = << >>

\* the rooms of the sorted list with their timestamps, whatever their order
ListedRooms(rooms) == RangeOf(rooms)

\* C32: load runs on the first request only: a later request finds loadPosition set, so it
\* does not rebuild the sorted list, and the list keeps the rooms and the timestamps the
\* live events gave it
C32_LoadRunsOnTheFirstRequestOnly ==
    [][(RequestStep /\ nRequests >= 1) =>
          /\ loadPosition # 0
          /\ ListedRooms(sortedJoinedRooms') = ListedRooms(sortedJoinedRooms)]_vars

\* the second half of C32 alone: no later request changes the rooms of the list
C32_LaterRequestsKeepTheRooms ==
    [][(RequestStep /\ nRequests >= 1) =>
          ListedRooms(sortedJoinedRooms') = ListedRooms(sortedJoinedRooms)]_vars

\* C33: after a live event of a room with an active subscription the response holds the
\* delta projection of that room in its room subscriptions; after a live event of a room
\* without one the response holds no entry for that room
C33_SubscribedEventsCarryTheDelta ==
    hist.step = "event" =>
        IF hist.room \in DOMAIN roomSubscriptions
        THEN /\ hist.room \in DOMAIN response.RoomSubscriptions
             /\ response.RoomSubscriptions[hist.room] = Room(hist.room, "delta")
        ELSE hist.room \notin DOMAIN response.RoomSubscriptions

\* an event of a subscribed room, taken by a waiting request: the delta is in the response
C33_Witness ==
    /\ hist.step = "event"
    /\ hist.room \in DOMAIN roomSubscriptions
    /\ DOMAIN response.RoomSubscriptions = { hist.room }
    /\ response.RoomSubscriptions[hist.room].Kind = "delta"

\* an event of a room without subscription answered with ops and no room subscriptions
C33_NoEntryReached ==
    /\ hist.step = "event"
    /\ hist.from >= 0
    /\ roomSubscriptions # EmptySubs
    /\ hist.room \notin DOMAIN roomSubscriptions
    /\ DOMAIN response.RoomSubscriptions = {}

----------------------------------------------------------------------------
(* Properties of the connection state, continued *)

\* a step of a producer-side callback: OnNewEvent, or OnUnreadCountsChanged through it
CallbackStep == nEvents' = nEvents + 1

\* C34: a producer-side callback changes nothing of the connection state but the inbox:
\* the muxed request, the sorted list, the reverse index, the room subscriptions and
\* loadPosition change on steps of the request handler only
C34_CallbacksOnlyFillTheInbox ==
    /\ [][CallbackStep =>
            /\ UNCHANGED << muxedReq, sortedJoinedRooms, sortedJoinedRoomsPositions,
                            roomSubscriptions, loadPosition, response, pc >>
            /\ \/ UNCHANGED updateEvents
               \/ \E eventData \in Events : updateEvents' = Append(updateEvents, eventData)]_vars
    /\ [][UNCHANGED << muxedReq, sortedJoinedRooms, sortedJoinedRoomsPositions,
                       roomSubscriptions, loadPosition >>
            \/ RequestStep \/ TakesEvent]_vars

\* a callback has pushed an event of a position above loadPosition while a request waits in
\* the live loop, and loadPosition is what the request handler left
C34_Witness ==
    /\ pc = "live"
    /\ updateEvents # << >>
    /\ Head(updateEvents).latestPos > loadPosition
    /\ loadPosition > 0
    /\ hist.step = "request"

\* the ops on a single index: DELETE, INSERT and UPDATE
SingleOps(ops) == { k \in DOMAIN ops : ops[k].Operation \in { "DELETE", "INSERT", "UPDATE" } }

\* C35: every DELETE, INSERT and UPDATE of the live loop carries an index that is not negative
\* and lies inside a tracked range of the window
C35_LiveOpsAreInsideTheWindow ==
    hist.step = "event" =>
        \A k \in SingleOps(response.Ops) :
           /\ response.Ops[k].Index >= 0
           /\ Inside(TrackedRanges, response.Ops[k].Index)

\* the same for INSERT and UPDATE alone
C35_InsertAndUpdateAreInsideTheWindow ==
    hist.step = "event" =>
        \A k \in SingleOps(response.Ops) :
           response.Ops[k].Operation # "DELETE" =>
              /\ response.Ops[k].Index >= 0
              /\ Inside(TrackedRanges, response.Ops[k].Index)

\* C36: after every request the connection's room subscriptions hold the rooms of the
\* muxed request's room subscriptions, and each stored subscription is the muxed request's
\* entry for the room
C36_StoredSubscriptionsMatchTheMuxedRequest ==
    (hist.step = "request" /\ muxedReq # Nil) =>
        roomSubscriptions = Val(muxedReq).RoomSubscriptions

\* the first half of C36 alone: the same rooms on both sides
C36_SameRoomsAreSubscribed ==
    (hist.step = "request" /\ muxedReq # Nil) =>
        DOMAIN roomSubscriptions = DOMAIN Val(muxedReq).RoomSubscriptions

\* a response has gone out: the request returned at once, or its live loop ended with an
\* event, the timeout or the cancellation
ResponseReturned == pc = "idle" /\ hist.step \in { "request", "event", "timeout", "cancel" }

\* C37: the count of every response is the number of rooms of the sorted list when the
\* response is returned, also when a live event has added a room to the list
C37_CountIsTheListLength ==
    ResponseReturned => response.Count = Len(sortedJoinedRooms)

\* the same for the requests that return without waiting
C37_CountOfImmediateResponses ==
    (pc = "idle" /\ hist.step = "request") => response.Count = Len(sortedJoinedRooms)

----------------------------------------------------------------------------
(* Properties of the request algebra, continued *)

\* C38: the result of ApplyDelta has exactly as many lists as the incoming request; a list
\* of the previous request at an index the incoming request does not supply is not carried
\* over, and its delta entry has a Prev and no Curr
C38_ResultHasTheIncomingLists ==
    mv.called =>
        /\ Len(mv.result.Lists) = Len(mv.nextReq.Lists)
        /\ \A i \in (Len(mv.nextReq.Lists) + 1)..Len(DeltaPrev.Lists) :
              /\ i \notin DOMAIN mv.result.Lists
              /\ mv.delta.Lists[i].Prev = Some(DeltaPrev.Lists[i])
              /\ mv.delta.Lists[i].Curr = Nil

\* the previous request has two lists and the incoming one none: the result has no list and
\* both delta entries have a Prev only
C38_Witness ==
    /\ mv.called
    /\ Len(DeltaPrev.Lists) = 2
    /\ mv.nextReq.Lists = << >>
    /\ mv.result.Lists = << >>
    /\ Len(mv.delta.Lists) = 2
    /\ \A i \in 1..2 : mv.delta.Lists[i].Prev # Nil /\ mv.delta.Lists[i].Curr = Nil

----------------------------------------------------------------------------
(* RequestFilters.Include on its own: one filter over one room *)

\* strings.ToLower over the letters the names and the name filters are written in
LowerChar(c) == IF c = "A" THEN "a" ELSE IF c = "B" THEN "b" ELSE c

ToLower(str) == [ k \in DOMAIN str |-> LowerChar(str[k]) ]

\* strings.Contains: sub is a run of consecutive letters of str (the empty string always is)
Contains(str, sub) ==
    \E start \in 0..(Len(str) - Len(sub)) :
        \A k \in 1..Len(sub) : str[start + k] = sub[k]

\* nullableStringExists: a nil input matches a nil entry, another input an equal entry
nullableStringExists(arr, input) ==
    IF Len(arr) = 0 THEN FALSE
    ELSE \E k \in DOMAIN arr :
            IF input = Nil THEN arr[k] = Nil ELSE arr[k] # Nil /\ Val(arr[k]) = Val(input)

\* RequestFilters.Include: the first test that fails returns false; a set room_types decides
\* the result there and then
Include(rf, r) ==
    IF rf.IsEncrypted # Nil /\ Val(rf.IsEncrypted) # r.Encrypted THEN FALSE
    ELSE IF rf.IsTombstoned # Nil /\ Val(rf.IsTombstoned) # r.Tombstoned THEN FALSE
    ELSE IF rf.IsDM # Nil /\ Val(rf.IsDM) # r.IsDM THEN FALSE
    ELSE IF rf.IsInvite # Nil /\ Val(rf.IsInvite) # r.IsInvite THEN FALSE
    ELSE IF rf.RoomNameFilter # << >>
            /\ ~Contains(ToLower(r.Name), ToLower(rf.RoomNameFilter)) THEN FALSE
    ELSE IF Len(rf.Tags) > 0 /\ ~(\E k \in DOMAIN rf.Tags : rf.Tags[k] \in r.Tags) THEN FALSE
    ELSE IF nullableStringExists(rf.NotRoomTypes, r.RoomType) THEN FALSE
    ELSE IF Len(rf.RoomTypes) > 0 THEN nullableStringExists(rf.RoomTypes, r.RoomType)
    ELSE IF Len(rf.Spaces) > 0 THEN \E k \in DOMAIN rf.Spaces : rf.Spaces[k] \in r.Spaces
    ELSE TRUE

\* the filters of a request: every field unset or set to one value, the room types also to
\* the null type
FilterInputs ==
    [ Spaces : { << >>, << "!space" >> },
      IsDM : { Nil, Some(TRUE) },
      IsEncrypted : { Nil, Some(TRUE) },
      IsInvite : { Nil, Some(FALSE) },
      IsTombstoned : { Nil, Some(FALSE) },
      RoomTypes : { << >>, << Nil >>, << Some("m.space") >> },
      NotRoomTypes : { << >>, << Nil >>, << Some("m.space") >> },
      RoomNameFilter : { << >>, << "A", "b" >> },
      Tags : { << >>, << "m.favourite" >> } ]

\* the rooms a filter is asked about
FilterRooms ==
    [ Encrypted : BOOLEAN, Tombstoned : BOOLEAN, IsDM : BOOLEAN, IsInvite : BOOLEAN,
      Name : { << "B", "a", "B", "a" >>, << "b", "a" >> },
      Tags : { {}, { "m.favourite" } },
      RoomType : { Nil, Some("m.space") },
      Spaces : { {}, { "!space" } } ]

InitFilter ==
    /\ muxedReq = Nil
    /\ sortedJoinedRooms = << >>
    /\ sortedJoinedRoomsPositions = [ r \in {} |-> 0 ]
    /\ roomSubscriptions = EmptySubs
    /\ loadPosition = 0
    /\ updateEvents = << >>
    /\ pc = "idle"
    /\ response = Response(NoPayloads, 0, << >>)
    /\ client = EmptyClient
    /\ hist = NoHist
    /\ nRequests = 0
    /\ nEvents = 0
    /\ cacheSubscribed = TRUE
    /\ discarded = FALSE
    /\ selectTimer = 0
    /\ \E rf \in FilterInputs : \E r \in FilterRooms :
          mv = [ rf |-> rf, r |-> r, called |-> FALSE, included |-> FALSE ]

\* the call rf.Include(r)
CallInclude ==
    /\ ~mv.called
    /\ mv' = [ mv EXCEPT !.called = TRUE, !.included = Include(mv.rf, mv.r) ]
    /\ UNCHANGED << connVars, nRequests, nEvents, cacheSubscribed, discarded, selectTimer >>

NextFilter == CallInclude

SpecFilter == InitFilter /\ [][NextFilter]_vars

\* the room satisfies every field of the filter that is set
SatisfiesEverySetField(rf, r) ==
    /\ rf.IsEncrypted # Nil => r.Encrypted = Val(rf.IsEncrypted)
    /\ rf.IsTombstoned # Nil => r.Tombstoned = Val(rf.IsTombstoned)
    /\ rf.IsDM # Nil => r.IsDM = Val(rf.IsDM)
    /\ rf.IsInvite # Nil => r.IsInvite = Val(rf.IsInvite)
    /\ rf.RoomNameFilter # << >> => Contains(ToLower(r.Name), ToLower(rf.RoomNameFilter))
    /\ rf.Tags # << >> => RangeOf(rf.Tags) \cap r.Tags # {}
    /\ r.RoomType \notin RangeOf(rf.NotRoomTypes)
    /\ rf.RoomTypes # << >> => r.RoomType \in RangeOf(rf.RoomTypes)
    /\ rf.Spaces # << >> => RangeOf(rf.Spaces) \cap r.Spaces # {}

\* C39: Include answers true only for a room that satisfies every field of the filter that
\* is set; a room that matches room_types and is in none of the spaces of the filter is
\* excluded
C39_IncludeNeedsEverySetField ==
    (mv.called /\ mv.included) => SatisfiesEverySetField(mv.rf, mv.r)

\* the same for the filters without room_types
C39_HoldsWithoutRoomTypes ==
    (mv.called /\ mv.included /\ mv.rf.RoomTypes = << >>) =>
        SatisfiesEverySetField(mv.rf, mv.r)

\* the other direction: a room that satisfies every set field is included
C39_SatisfyingRoomsAreIncluded ==
    (mv.called /\ SatisfiesEverySetField(mv.rf, mv.r)) => mv.included

----------------------------------------------------------------------------
(* The client list of the op-log checker: List.Sync, List.Delete, List.Insert *)

MaxOps == 5

DELETED == "DELETED"

\* l.rooms[i], the slices of Go counting from 0
RoomAt(rooms, i) == rooms[i + 1]

\* the slice with l.rooms[i] = v
SetRoomAt(rooms, i, v) == [ rooms EXCEPT ![i + 1] = v ]

\* List.DuplicateCheck: true when some room id stands at two indices
DuplicateCheck(rooms) ==
    \E i, j \in DOMAIN rooms : i # j /\ rooms[i] = rooms[j]

\* NewList: no rooms, an empty deletedIndexes, no history; exit is "" while the program runs
NewList == [ rooms |-> << >>, deletedIndexes |-> {}, history |-> << >>, exit |-> "",
             duplicate |-> FALSE ]

InitOpLog ==
    /\ muxedReq = Nil
    /\ sortedJoinedRooms = << >>
    /\ sortedJoinedRoomsPositions = [ r \in {} |-> 0 ]
    /\ roomSubscriptions = EmptySubs
    /\ loadPosition = 0
    /\ updateEvents = << >>
    /\ pc = "idle"
    /\ response = Response(NoPayloads, 0, << >>)
    /\ client = EmptyClient
    /\ hist = NoHist
    /\ nRequests = 0
    /\ nEvents = 0
    /\ cacheSubscribed = TRUE
    /\ discarded = FALSE
    /\ selectTimer = 0
    /\ mv = NewList

\* the loop of main takes the next op of the log while the program has not exited
NextOp == mv.exit = "" /\ Len(mv.history) < MaxOps

\* the rest of the program's state
OpLogUnchanged ==
    UNCHANGED << connVars, nRequests, nEvents, cacheSubscribed, discarded, selectTimer >>

\* List.Sync followed by the DuplicateCheck of main: a SYNC that does not start at 0 is
\* ignored, another replaces l.rooms and leaves deletedIndexes as it is
ListSync(roomIDs, start) ==
    /\ NextOp
    /\ IF start # 0
         THEN mv' = [ mv EXCEPT !.history = Append(@, << "ignored" >>),
                                !.duplicate = DuplicateCheck(mv.rooms) ]
         ELSE mv' = [ mv EXCEPT !.rooms = roomIDs,
                                !.history = Append(@, << "SYNC", start, roomIDs >>),
                                !.duplicate = DuplicateCheck(roomIDs) ]
    /\ OpLogUnchanged

\* List.Delete followed by the DuplicateCheck of main
ListDelete(index) ==
    /\ NextOp
    /\ IF index >= Len(mv.rooms)
         THEN mv' = [ mv EXCEPT !.history = Append(@, << "ignored" >>),
                                !.duplicate = DuplicateCheck(mv.rooms) ]
         ELSE LET rooms == SetRoomAt(mv.rooms, index, DELETED)
              IN  mv' = [ mv EXCEPT !.rooms = rooms,
                                    !.deletedIndexes = @ \cup { index },
                                    !.history = Append(@, << "DELETE", index >>),
                                    !.duplicate = DuplicateCheck(rooms) ]
    /\ OpLogUnchanged

\* the shift of List.Insert: the rooms between the free slot and index move by one towards
\* the free slot
ShiftTowards(rooms, deletedIndex, index) ==
    [ k \in DOMAIN rooms |->
        LET i == k - 1
        IN  IF deletedIndex < index /\ deletedIndex <= i /\ i < index THEN RoomAt(rooms, i + 1)
            ELSE IF deletedIndex > index /\ index < i /\ i <= deletedIndex
                 THEN RoomAt(rooms, i - 1)
            ELSE rooms[k] ]

\* List.Insert followed by the DuplicateCheck of main: log.Fatalf ends the program when the
\* slot is occupied and deletedIndexes does not hold exactly one index; a free slot beyond
\* the end of l.rooms is an index out of range
ListInsert(index, roomID) ==
    /\ NextOp
    /\ IF index >= Len(mv.rooms)
         THEN mv' = [ mv EXCEPT !.history = Append(@, << "ignored" >>),
                                !.duplicate = DuplicateCheck(mv.rooms) ]
         ELSE IF RoomAt(mv.rooms, index) = DELETED
         THEN LET rooms == SetRoomAt(mv.rooms, index, roomID)
              IN  mv' = [ mv EXCEPT !.rooms = rooms,
                                    !.history = Append(@, << "INSERT", index, roomID >>),
                                    !.duplicate = DuplicateCheck(rooms) ]
         ELSE IF Cardinality(mv.deletedIndexes) # 1
         THEN mv' = [ mv EXCEPT !.exit = "no free slots" ]
         ELSE LET deletedIndex == CHOOSE j \in mv.deletedIndexes : TRUE
              IN  IF deletedIndex >= Len(mv.rooms)
                  THEN mv' = [ mv EXCEPT !.deletedIndexes = {},
                                         !.exit = "index out of range" ]
                  ELSE LET rooms == SetRoomAt(ShiftTowards(mv.rooms, deletedIndex, index),
                                              index, roomID)
                       IN  mv' = [ mv EXCEPT !.rooms = rooms,
                                             !.deletedIndexes = {},
                                             !.history = Append(@, << "INSERT", index, roomID >>),
                                             !.duplicate = DuplicateCheck(rooms) ]
    /\ OpLogUnchanged

\* the room lists of the SYNC lines and the rooms and indices of the other lines
SyncRooms == { << "A", "B", "C" >>, << "A", "B" >> }

OpIndexes == 0..3

NextOpLog ==
    \/ \E roomIDs \in SyncRooms : \E start \in 0..1 : ListSync(roomIDs, start)
    \/ \E index \in OpIndexes : ListDelete(index)
    \/ \E index \in OpIndexes : \E roomID \in { "A", "B", "D" } : ListInsert(index, roomID)

SpecOpLog == InitOpLog /\ [][NextOpLog]_vars

\* the indices whose slot holds the DELETED marker
DeletedSlots(rooms) == { i \in 0..(Len(rooms) - 1) : RoomAt(rooms, i) = DELETED }

\* C40: after any sequence of Sync, Delete and Insert calls deletedIndexes holds exactly the
\* indices whose slot holds the DELETED marker
C40_DeletedIndexesAreTheDeletedSlots ==
    mv.exit = "" => mv.deletedIndexes = DeletedSlots(mv.rooms)

\* a line of the history is a DELETE, or an INSERT
IsDelete(line) == line[1] = "DELETE"

IsInsert(line) == line[1] = "INSERT"

\* the history is one SYNC from 0 followed by DELETE and INSERT lines in turn
DeleteInsertPairs(history) ==
    /\ Len(history) >= 1
    /\ history[1][1] = "SYNC"
    /\ \A k \in 2..Len(history) :
          IF k % 2 = 0 THEN IsDelete(history[k]) ELSE IsInsert(history[k])

\* C40, its consequence: a DELETE followed by an INSERT can be applied any number of times in
\* a row without the failure 'no free slots'
C40_DeleteInsertPairsNeverFail ==
    [][(DeleteInsertPairs(mv.history) /\ Len(mv.history) % 2 = 0) =>
          mv'.exit # "no free slots"]_vars

\* the pairs that do not fill the slot they have just freed keep deletedIndexes exact
C40_ExactWhenTheInsertShifts ==
    (/\ mv.exit = ""
     /\ DeleteInsertPairs(mv.history)
     /\ \A k \in 2..Len(mv.history) :
           IsInsert(mv.history[k]) => mv.history[k][2] # mv.history[k - 1][2])
        => mv.deletedIndexes = DeletedSlots(mv.rooms)

====
